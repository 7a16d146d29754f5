------------------------------ MODULE ZepProofs ------------------------------
(***************************************************************************)
(* For any number of users, processes and verbs of the Zep adapter: what a *)
(* process remembers of users is true but for the ways Zep.tla names, a    *)
(* write fails only for a reason, and a probe leaves nothing behind.       *)
(***************************************************************************)
EXTENDS Zep, TLAPS

Labels == {"idle", "user_add", "user_added", "add", "poll", "sleep", "cleanup",
           "user_delete", "user_deleted", "done", "failed"}

\* Which steps each verb takes, on whose behalf.
VerbSteps ==
  \A w \in Workers :
    /\ verb[w] = "upsert" =>
         user[w] \in Users /\ pc[w] \in {"user_add", "user_added", "add", "done", "failed"}
    /\ verb[w] = "delete_scope" =>
         user[w] \in Users /\ pc[w] \in {"user_delete", "user_deleted", "done", "failed"}
    /\ verb[w] = "self_test" =>
         /\ user[w] = w
         /\ pc[w] \in {"user_add", "user_added", "add", "poll", "sleep", "cleanup", "done"}
    /\ verb[w] = "none" => pc[w] = "idle"
    /\ Writing(w) => facts[w] > 0

Typed == TypeOK /\ VerbSteps

LEMMA GotoLabel ==
  ASSUME TypeOK, NEW w \in Workers, NEW label \in Labels, Goto(w, label)
  PROVE  /\ pc' \in [Workers -> Labels]
         /\ pc'[w] = label
         /\ \A v \in Workers \ {w} : pc'[v] = pc[v]
  BY DEF TypeOK, Goto, Labels

LEMMA EnsureUserStep ==
  ASSUME TypeOK, NEW w \in Workers, NEW p, NEW u, EnsureUser(w, p, u)
  PROVE  /\ pc' \in [Workers -> Labels]
         /\ pc'[w] \in {"user_add", "add"}
         /\ pc'[w] = "add" => u \in known[p]
         /\ \A v \in Workers \ {w} : pc'[v] = pc[v]
  BY DEF TypeOK, EnsureUser, Goto, Labels

LEMMA InitTyped == Init => Typed
<1> SUFFICES ASSUME Init PROVE Typed
  OBVIOUS
<1>1. \A w \in Workers : pc[w] = "idle" /\ verb[w] = "none"
  BY DEF Init
<1> QED
  BY <1>1, ZepAssumption DEF Init, Typed, TypeOK, VerbSteps, Writing, AllUsers

\* A call sets the locals of its own worker.
LEMMA CallTyped ==
  ASSUME Typed, NEW w \in Workers, NEW v \in {"upsert", "delete_scope", "self_test"},
         NEW u \in AllUsers, NEW k \in 0..MaxFacts, Call(w, v, u, k)
  PROVE  /\ verb' \in [Workers -> {"none", "upsert", "delete_scope", "self_test"}]
         /\ user' \in [Workers -> AllUsers \cup {None}]
         /\ facts' \in [Workers -> 0..MaxFacts]
         /\ verb'[w] = v /\ user'[w] = u /\ facts'[w] = k
         /\ \A x \in Workers \ {w} : verb'[x] = verb[x] /\ user'[x] = user[x] /\ facts'[x] = facts[x]
  BY DEF Typed, TypeOK, Call

LEMMA CascadeTyped ==
  ASSUME TypeOK, NEW u \in AllUsers, Cascade(u)
  PROVE  /\ users' \subseteq AllUsers
         /\ userOf' \in [Episodes -> AllUsers \cup {None}]
         /\ processed' \subseteq Episodes
         /\ \A e \in Episodes : userOf'[e] # None => userOf'[e] \in users'
  BY ZepAssumption DEF TypeOK, Cascade

LEMMA NextTyped == Typed /\ [Next]_vars => Typed'
<1> SUFFICES ASSUME Typed, [Next]_vars PROVE Typed'
  OBVIOUS
<1> USE ZepAssumption DEF Typed, zep, request, probing, history, unfounded
<1>a. \A w \in Workers : w \in AllUsers
  BY DEF AllUsers
<1>b. \A u \in Users : u \in AllUsers
  BY DEF AllUsers
<1>1. CASE UNCHANGED vars
  BY <1>1 DEF vars, TypeOK, VerbSteps, Writing
<1>2. CASE Build
  BY <1>2 DEF Build, TypeOK, VerbSteps, Writing
<1>3. ASSUME NEW w \in Workers, Upsert(w) PROVE Typed'
  <2>1. PICK u \in Users, k \in 1..MaxFacts :
          /\ Call(w, "upsert", u, k)
          /\ EnsureUser(w, ProcessOf[w], u)
          /\ overlapped' = [overlapped EXCEPT ![w] = \E v \in Workers : Erasing(v) /\ user[v] = u]
    BY <1>3 DEF Upsert
  <2>2. k \in 0..MaxFacts /\ k > 0
    OBVIOUS
  <2>3. overlapped' \in [Workers -> BOOLEAN]
    BY <2>1 DEF TypeOK
  <2>4. /\ verb' \in [Workers -> {"none", "upsert", "delete_scope", "self_test"}]
        /\ user' \in [Workers -> AllUsers \cup {None}]
        /\ facts' \in [Workers -> 0..MaxFacts]
        /\ verb'[w] = "upsert" /\ user'[w] = u /\ facts'[w] = k
        /\ \A x \in Workers \ {w} : verb'[x] = verb[x] /\ user'[x] = user[x] /\ facts'[x] = facts[x]
    BY <2>1, <2>2, <1>b, CallTyped
  <2>5. /\ pc' \in [Workers -> Labels]
        /\ pc'[w] \in {"user_add", "add"}
        /\ \A v \in Workers \ {w} : pc'[v] = pc[v]
    BY <2>1, EnsureUserStep
  <2>6. TypeOK'
    BY <1>3, <2>3, <2>4, <2>5 DEF Upsert, TypeOK, Labels
  <2>7. VerbSteps'
    BY <2>2, <2>4, <2>5 DEF VerbSteps, Writing
  <2> QED
    BY <2>6, <2>7
<1>4. ASSUME NEW w \in Workers, DeleteScope(w) PROVE Typed'
  <2>1. PICK u \in Users : Call(w, "delete_scope", u, 0)
    BY <1>4 DEF DeleteScope
  <2>2. /\ verb' \in [Workers -> {"none", "upsert", "delete_scope", "self_test"}]
        /\ user' \in [Workers -> AllUsers \cup {None}]
        /\ facts' \in [Workers -> 0..MaxFacts]
        /\ verb'[w] = "delete_scope" /\ user'[w] = u
        /\ \A x \in Workers \ {w} : verb'[x] = verb[x] /\ user'[x] = user[x] /\ facts'[x] = facts[x]
    BY <2>1, <1>b, CallTyped
  <2>3. overlapped' \in [Workers -> BOOLEAN]
    BY <1>4 DEF DeleteScope, TypeOK
  <2>4. TypeOK'
    BY <1>4, <2>2, <2>3 DEF DeleteScope, Goto, TypeOK
  <2>5. pc'[w] = "user_delete" /\ \A v \in Workers \ {w} : pc'[v] = pc[v]
    BY <1>4 DEF DeleteScope, Goto, TypeOK
  <2>6. VerbSteps'
    BY <2>2, <2>5 DEF VerbSteps, Writing
  <2> QED
    BY <2>4, <2>6
<1>5. ASSUME NEW w \in Workers, SelfTest(w) PROVE Typed'
  <2>1. Call(w, "self_test", w, 1) /\ EnsureUser(w, ProcessOf[w], w)
    BY <1>5 DEF SelfTest
  <2>2. /\ verb' \in [Workers -> {"none", "upsert", "delete_scope", "self_test"}]
        /\ user' \in [Workers -> AllUsers \cup {None}]
        /\ facts' \in [Workers -> 0..MaxFacts]
        /\ verb'[w] = "self_test" /\ user'[w] = w /\ facts'[w] = 1
        /\ \A x \in Workers \ {w} : verb'[x] = verb[x] /\ user'[x] = user[x] /\ facts'[x] = facts[x]
    BY <2>1, <1>a, CallTyped
  <2>3. /\ pc' \in [Workers -> Labels]
        /\ pc'[w] \in {"user_add", "add"}
        /\ \A v \in Workers \ {w} : pc'[v] = pc[v]
    BY <2>1, EnsureUserStep
  <2>4. TypeOK'
    BY <1>5, <2>2, <2>3 DEF SelfTest, TypeOK, Labels
  <2>5. VerbSteps'
    BY <2>2, <2>3 DEF VerbSteps, Writing
  <2> QED
    BY <2>4, <2>5
<1>6. ASSUME NEW w \in Workers, UserAdd(w) PROVE Typed'
  <2>0. pc[w] = "user_add" /\ user[w] \in AllUsers /\ verb[w] \in {"upsert", "self_test"}
    BY <1>6, <1>a, <1>b DEF UserAdd, TypeOK, VerbSteps
  <2>1. /\ users' \subseteq AllUsers /\ users \subseteq users'
        /\ outdated' \subseteq Processes \X AllUsers
        /\ mistaken' \subseteq Processes \X AllUsers
    <3>1. CASE Create(w)
      BY <2>0, <3>1 DEF Create, TypeOK
    <3>2. ASSUME NEW exc \in Refusals, RefuseUser(w, exc)
          PROVE  /\ users' = users /\ outdated' = outdated
                 /\ mistaken' \subseteq Processes \X AllUsers
      <4>1. <<ProcessOf[w], user[w]>> \in Processes \X AllUsers
        BY <2>0
      <4> QED
        BY <3>2, <4>1 DEF RefuseUser, TypeOK
    <3> QED
      BY <1>6, <3>1, <3>2 DEF UserAdd, TypeOK
  <2>4. lost' \in [Workers -> BOOLEAN]
    <3>1. CASE Create(w)
      BY <3>1 DEF Create, TypeOK
    <3>2. ASSUME NEW exc \in Refusals, RefuseUser(w, exc)
          PROVE  lost' \in [Workers -> BOOLEAN]
      <4>1. \E b \in BOOLEAN : lost' = [lost EXCEPT ![w] = b]
        BY <3>2 DEF RefuseUser
      <4> QED
        BY <4>1 DEF TypeOK
    <3> QED
      BY <1>6, <3>1, <3>2 DEF UserAdd
  <2>2. \/ pc' = [pc EXCEPT ![w] = "user_added"]
        \/ pc' = [pc EXCEPT ![w] = "cleanup"] /\ verb[w] = "self_test"
        \/ pc' = [pc EXCEPT ![w] = "failed"] /\ verb[w] # "self_test"
    BY <1>6 DEF UserAdd, Create, RefuseUser, OnException, Goto
  <2>3. UNCHANGED <<builds, userOf, processed, known, request, episode, probing, overlapped>>
    BY <1>6 DEF UserAdd
  <2>5. TypeOK'
    <3>1. pc' \in [Workers -> Labels]
      BY <2>2 DEF TypeOK, Labels
    <3>2. \A e \in Episodes : userOf'[e] # None => userOf'[e] \in users'
      BY <2>1, <2>3 DEF TypeOK
    <3> QED
      BY <2>1, <2>3, <2>4, <3>1, <3>2 DEF TypeOK, Labels
  <2>6. VerbSteps'
    BY <2>0, <2>2, <2>3 DEF TypeOK, VerbSteps, Writing
  <2> QED
    BY <2>5, <2>6
<1>7. ASSUME NEW w \in Workers, UserAdded(w) PROVE Typed'
  BY <1>7 DEF UserAdded, Goto, TypeOK, VerbSteps, Writing
<1>8. ASSUME NEW w \in Workers, Add(w) PROVE Typed'
  <2>1. CASE Stored(w)
    <3>1. PICK e \in Unissued :
            /\ Keep(w, e)
            /\ episode' = [episode EXCEPT ![w] = IF verb[w] = "self_test" THEN e ELSE None]
      BY <2>1 DEF Stored
    <3>2. e \in Episodes
      BY DEF Unissued
    <3>3. facts[w] > 0 /\ facts' = [facts EXCEPT ![w] = @ - 1]
      BY <1>8, <2>1 DEF Add, Stored, VerbSteps, Writing
    <3>4. facts' \in [Workers -> 0..MaxFacts]
      BY <3>3 DEF TypeOK
    <3>5. \/ verb[w] = "self_test" /\ Goto(w, "poll")
          \/ verb[w] = "upsert" /\ facts[w] = 1 /\ Goto(w, "done")
          \/ verb[w] = "upsert" /\ facts[w] # 1 /\ EnsureUser(w, ProcessOf[w], user[w])
      BY <1>8, <2>1 DEF Add, Stored, LastFact, VerbSteps, TypeOK
    <3>6. /\ pc' \in [Workers -> Labels]
          /\ verb[w] = "self_test" => pc'[w] = "poll"
          /\ verb[w] = "upsert" /\ facts[w] = 1 => pc'[w] = "done"
          /\ verb[w] = "upsert" /\ facts[w] # 1 => pc'[w] \in {"user_add", "add"}
          /\ \A v \in Workers \ {w} : pc'[v] = pc[v]
      BY <3>5, GotoLabel, EnsureUserStep DEF Labels
    <3>7. user[w] \in users /\ userOf' = [userOf EXCEPT ![e] = user[w]]
      BY <3>1 DEF Keep
    <3>8. UNCHANGED <<builds, users, processed, known, verb, user, probing, history>>
      BY <1>8, <2>1 DEF Add, Stored
    <3>9. TypeOK'
      BY <3>1, <3>2, <3>4, <3>6, <3>7, <3>8 DEF TypeOK, Labels
    <3>10. VerbSteps'
      BY <3>3, <3>4, <3>5, <3>6, <3>8 DEF VerbSteps, Writing, TypeOK
    <3> QED
      BY <3>9, <3>10
  <2>2. CASE Refused(w)
    BY <1>8, <2>2 DEF Add, Refused, OnException, Goto, TypeOK, VerbSteps, Writing
  <2>3. CASE Unanswered(w)
    <3>1. PICK e \in Unissued : Keep(w, e)
      BY <2>3 DEF Unanswered
    <3>2. user[w] \in users /\ userOf' = [userOf EXCEPT ![e] = user[w]]
      BY <3>1 DEF Keep
    <3>3. lost' \in [Workers -> BOOLEAN]
      BY <2>3 DEF Unanswered, TypeOK
    <3>4. UNCHANGED <<builds, users, processed, known, request, episode, probing, overlapped, unfounded>>
      BY <1>8, <2>3 DEF Add, Unanswered
    <3>5. /\ pc[w] = "add"
          /\ \/ pc' = [pc EXCEPT ![w] = "cleanup"] /\ verb[w] = "self_test"
             \/ pc' = [pc EXCEPT ![w] = "failed"] /\ verb[w] # "self_test"
      BY <1>8, <2>3 DEF Add, Unanswered, OnException, Goto
    <3>6. TypeOK'
      BY <3>2, <3>3, <3>4, <3>5 DEF TypeOK
    <3>7. VerbSteps'
      BY <3>4, <3>5 DEF VerbSteps, Writing, TypeOK
    <3> QED
      BY <3>6, <3>7
  <2> QED
    BY <1>8, <2>1, <2>2, <2>3 DEF Add
<1>9. ASSUME NEW w \in Workers, UserDelete(w) PROVE Typed'
  <2>1. user[w] \in AllUsers
    BY <1>9, <1>b DEF UserDelete, VerbSteps, TypeOK
  <2>2. Misled(w) \subseteq Processes
    BY DEF Misled
  <2>3. outdated' \subseteq Processes \X AllUsers
    BY <1>9, <2>1, <2>2 DEF UserDelete, TypeOK
  <2>4. TypeOK'
    BY <1>9, <2>1, <2>3, CascadeTyped DEF UserDelete, Goto, TypeOK
  <2>5. VerbSteps'
    BY <1>9 DEF UserDelete, Goto, TypeOK, VerbSteps, Writing
  <2> QED
    BY <2>4, <2>5
<1>10. ASSUME NEW w \in Workers, UserDeleted(w) PROVE Typed'
  BY <1>10 DEF UserDeleted, Forgets, Goto, TypeOK, VerbSteps, Writing
<1>11. ASSUME NEW w \in Workers, Poll(w) PROVE Typed'
  <2>1. pc[w] = "poll" /\ (Goto(w, "cleanup") \/ Goto(w, "sleep"))
    BY <1>11 DEF Poll
  <2>2. UNCHANGED <<zep, known, request, episode, probing, history>>
    BY <1>11 DEF Poll
  <2> QED
    BY <2>1, <2>2 DEF Goto, TypeOK, VerbSteps, Writing
<1>12. ASSUME NEW w \in Workers, Wake(w) PROVE Typed'
  BY <1>12 DEF Wake, Goto, TypeOK, VerbSteps, Writing
<1>13. ASSUME NEW w \in Workers, Cleanup(w) PROVE Typed'
  <2>1. TypeOK'
    BY <1>13, <1>a, CascadeTyped DEF Cleanup, Forgets, Goto, TypeOK
  <2>2. VerbSteps'
    BY <1>13 DEF Cleanup, Goto, TypeOK, VerbSteps, Writing
  <2> QED
    BY <2>1, <2>2
<1>14. ASSUME NEW w \in Workers, Deadline(w) PROVE Typed'
  BY <1>14 DEF Deadline, TypeOK, VerbSteps, Writing
<1>15. ASSUME NEW w \in Workers, Fail(w) PROVE Typed'
  <2>1. outdated' \subseteq Processes \X AllUsers
    BY <1>15 DEF Fail, Knows, TypeOK
  <2> QED
    BY <1>15, <2>1 DEF Fail, OnException, Goto, TypeOK, VerbSteps, Writing
<1>16. ASSUME NEW w \in Workers, Reply(w) PROVE Typed'
  BY <1>16 DEF Reply, Ended, Goto, TypeOK, VerbSteps, Writing
<1> QED
  BY <1>1, <1>2, <1>3, <1>4, <1>5, <1>6, <1>7, <1>8, <1>9, <1>10, <1>11, <1>12,
     <1>13, <1>14, <1>15, <1>16 DEF Next, Step

\* The types of Zep.tla hold, and an episode belongs to a user there is.
THEOREM TypeCorrect == Spec => []TypeOK
<1>1. Typed => TypeOK
  BY DEF Typed
<1> QED
  BY <1>1, InitTyped, NextTyped, PTL DEF Spec

-----------------------------------------------------------------------------
(* What a process remembers of users. *)

Excused(w) == Unfounded(ProcessOf[w], user[w])

\* Beside the property: an answered user.add names a user there is, an
\* add finds one, a write knows of the erasures that overlap it, and nobody
\* but its worker remembers a probe's user.
UserInv ==
  /\ Typed
  /\ KnownUsersExist
  /\ \A w \in Workers : pc[w] = "user_added" => user[w] \in users \/ Excused(w)
  /\ \A w \in Workers :
       verb[w] = "upsert" /\ pc[w] = "add" => user[w] \in users \/ overlapped[w] \/ Excused(w)
  /\ \A v, w \in Workers :
       Erasing(v) /\ verb[w] = "upsert" /\ Writing(w) /\ user[v] = user[w] => overlapped[w]
  /\ \A p \in Processes : \A w \in known[p] \cap Workers : p = ProcessOf[w]

LEMMA IdleHasNoVerb ==
  ASSUME Typed, NEW w \in Workers
  PROVE  /\ pc[w] = "idle" => verb[w] = "none"
         /\ pc[w] \in {"user_delete", "user_deleted"} => verb[w] = "delete_scope"
  BY DEF Typed, TypeOK, VerbSteps

LEMMA InitUser == Init => UserInv
<1> SUFFICES ASSUME Init PROVE UserInv
  OBVIOUS
<1>1. \A w \in Workers : pc[w] = "idle" /\ verb[w] = "none"
  BY DEF Init
<1>2. \A p \in Processes : known[p] = {}
  BY DEF Init
<1> QED
  BY <1>1, <1>2, InitTyped
  DEF UserInv, KnownUsersExist, Unfounded, Init, Erasing, Writing

LEMMA NextUser == UserInv /\ [Next]_vars => UserInv'
<1> SUFFICES ASSUME UserInv, [Next]_vars PROVE UserInv'
  OBVIOUS
<1>t. Typed /\ Typed'
  BY NextTyped DEF UserInv
<1> USE <1>t, ZepAssumption DEF UserInv, KnownUsersExist, Unfounded,
      Excused, unfounded, Erasing, Writing, zep, request, probing, history
<1>1. CASE UNCHANGED vars
  BY <1>1 DEF vars
<1>2. CASE Build
  BY <1>2 DEF Build
<1>3. ASSUME NEW w \in Workers, Upsert(w) PROVE UserInv'
  <2>1. PICK u \in Users, k \in 1..MaxFacts :
          /\ Call(w, "upsert", u, k)
          /\ EnsureUser(w, ProcessOf[w], u)
          /\ overlapped' = [overlapped EXCEPT ![w] = \E v \in Workers : Erasing(v) /\ user[v] = u]
    BY <1>3 DEF Upsert
  <2>0. pc[w] = "idle" /\ verb[w] = "none"
    BY <2>1, IdleHasNoVerb DEF Call
  <2>2. /\ verb'[w] = "upsert" /\ user'[w] = u /\ verb[w] = "none" /\ pc[w] = "idle"
        /\ \A x \in Workers \ {w} : verb'[x] = verb[x] /\ user'[x] = user[x]
    BY <2>0, <2>1 DEF Call, Typed, TypeOK
  <2>3. /\ pc'[w] \in {"user_add", "add"}
        /\ pc'[w] = "add" => u \in known[ProcessOf[w]]
        /\ \A v \in Workers \ {w} : pc'[v] = pc[v]
    BY <2>1, EnsureUserStep DEF Typed
  <2>4. /\ overlapped'[w] <=> \E v \in Workers : Erasing(v) /\ user[v] = u
        /\ \A x \in Workers \ {w} : overlapped'[x] = overlapped[x]
    BY <2>1 DEF Typed, TypeOK
  <2>5. UNCHANGED <<zep, known, lost, unfounded>>
    BY <1>3 DEF Upsert
  <2>6. KnownUsersExist'
    BY <2>2, <2>3, <2>5
  <2>7. \A x \in Workers : pc'[x] = "user_added" => user'[x] \in users' \/ Excused(x)'
    BY <2>2, <2>3, <2>5
  <2>8. \A x \in Workers : verb'[x] = "upsert" /\ pc'[x] = "add"
                             => user'[x] \in users' \/ overlapped'[x] \/ Excused(x)'
    <3>1. ProcessOf[w] \in Processes
      BY ZepAssumption
    <3>2. \A v \in Workers : pc[v] = "user_deleted" => Erasing(v)
      BY IdleHasNoVerb
    <3>3. u \in known[ProcessOf[w]] =>
            u \in users \/ Unfounded(ProcessOf[w], u) \/ overlapped'[w]
      BY <2>4, <3>1, <3>2
    <3> QED
      BY <2>2, <2>3, <2>4, <2>5, <3>3
  <2>9. \A v, x \in Workers :
          (Erasing(v) /\ verb[x] = "upsert" /\ Writing(x) /\ user[v] = user[x] => overlapped[x])'
    BY <2>2, <2>3, <2>4
  <2> QED
    BY <2>5, <2>6, <2>7, <2>8, <2>9
<1>4. ASSUME NEW w \in Workers, DeleteScope(w) PROVE UserInv'
  <2>1. PICK u \in Users :
          /\ Call(w, "delete_scope", u, 0)
          /\ overlapped' = [v \in Workers |->
                               overlapped[v] \/ (verb[v] = "upsert" /\ Writing(v) /\ user[v] = u)]
    BY <1>4 DEF DeleteScope
  <2>0. pc[w] = "idle" /\ verb[w] = "none"
    BY <2>1, IdleHasNoVerb DEF Call
  <2>2. /\ verb'[w] = "delete_scope" /\ user'[w] = u /\ verb[w] = "none" /\ pc[w] = "idle"
        /\ \A x \in Workers \ {w} : verb'[x] = verb[x] /\ user'[x] = user[x]
    BY <2>0, <2>1 DEF Call, Typed, TypeOK
  <2>3. pc'[w] = "user_delete" /\ \A v \in Workers \ {w} : pc'[v] = pc[v]
    BY <1>4 DEF DeleteScope, Goto, Typed, TypeOK
  <2>4. UNCHANGED <<zep, known, lost, unfounded>>
    BY <1>4 DEF DeleteScope
  <2>5. \A x \in Workers :
          overlapped'[x] <=> (overlapped[x] \/ (verb[x] = "upsert" /\ Writing(x) /\ user[x] = u))
    BY <2>1
  <2>6. \A v, x \in Workers :
          (Erasing(v) /\ verb[x] = "upsert" /\ Writing(x) /\ user[v] = user[x] => overlapped[x])'
    BY <2>2, <2>3, <2>5
  <2> QED
    BY <2>2, <2>3, <2>4, <2>5, <2>6
<1>5. ASSUME NEW w \in Workers, SelfTest(w) PROVE UserInv'
  <2>0. pc[w] = "idle" /\ verb[w] = "none"
    BY <1>5, IdleHasNoVerb DEF SelfTest, Call
  <2>1. /\ verb'[w] = "self_test" /\ user'[w] = w /\ verb[w] = "none" /\ pc[w] = "idle"
        /\ \A x \in Workers \ {w} : verb'[x] = verb[x] /\ user'[x] = user[x]
    BY <1>5, <2>0 DEF SelfTest, Call, Typed, TypeOK
  <2>2. /\ pc'[w] \in {"user_add", "add"}
        /\ \A v \in Workers \ {w} : pc'[v] = pc[v]
    BY <1>5, EnsureUserStep DEF SelfTest, Typed
  <2>3. UNCHANGED <<zep, known, lost, overlapped, unfounded>>
    BY <1>5 DEF SelfTest
  <2> QED
    BY <2>1, <2>2, <2>3
<1>6. ASSUME NEW w \in Workers, UserAdd(w) PROVE UserInv'
  <2>1. /\ pc[w] = "user_add" /\ pc'[w] \in {"user_added", "cleanup", "failed"}
        /\ \A v \in Workers \ {w} : pc'[v] = pc[v]
    BY <1>6 DEF UserAdd, Create, RefuseUser, OnException, Goto, Typed, TypeOK
  <2>2. UNCHANGED <<known, request, overlapped>>
    BY <1>6 DEF UserAdd
  <2>3. CASE Create(w)
    <3>1. users' = users \cup {user[w]}
      BY <2>3 DEF Create
    <3>2. \A p \in Processes : ~Unfounded(p, user[w])'
      <4>1. /\ outdated' = outdated \ (Processes \X {user[w]})
            /\ mistaken' = mistaken \ (Processes \X {user[w]})
        BY <2>3 DEF Create
      <4>2. \A p \in Processes : <<p, user[w]>> \notin outdated' /\ <<p, user[w]>> \notin mistaken'
        BY <4>1
      <4> QED
        BY <2>2, <4>2
    <3>3. \A p \in Processes, u \in AllUsers : u # user[w] => (Unfounded(p, u)' <=> Unfounded(p, u))
      BY <2>3 DEF Create
    <3>4. users \subseteq AllUsers /\ \A p \in Processes : known[p] \subseteq AllUsers
      BY DEF Typed, TypeOK
    <3>5. \A v \in Workers : user[v] \in AllUsers \/ verb[v] = "none"
      BY DEF Typed, VerbSteps, AllUsers, TypeOK
    <3>6. \A v \in Workers : pc[v] \in {"user_added", "add"} => verb[v] # "none"
      BY DEF Typed, VerbSteps
    <3>7. KnownUsersExist'
      BY <2>1, <2>2, <3>1, <3>2, <3>3, <3>4
    <3>8. \A v \in Workers : pc'[v] = "user_added" => user'[v] \in users' \/ Excused(v)'
      BY <2>1, <2>2, <3>1, <3>3, <3>5, <3>6
    <3>9. \A v \in Workers : verb'[v] = "upsert" /\ pc'[v] = "add"
                              => user'[v] \in users' \/ overlapped'[v] \/ Excused(v)'
      BY <2>1, <2>2, <3>1, <3>3, <3>5, <3>6
    <3> QED
      BY <2>1, <2>2, <3>7, <3>8, <3>9
  <2>4. ASSUME NEW exc \in Refusals, RefuseUser(w, exc) PROVE UserInv'
    <3>1. users' = users /\ outdated' = outdated
      BY <2>4 DEF RefuseUser
    <3>2. \/ mistaken' = mistaken
          \/ user[w] \notin users /\ mistaken' = mistaken \cup {<<ProcessOf[w], user[w]>>}
      BY <2>4 DEF RefuseUser
    <3>3. pc'[w] = "user_added" => user[w] \in users \/ Excused(w)'
      <4>1. pc'[w] = "user_added" => IsConflict(exc)
        BY <2>4 DEF RefuseUser, Goto, OnException, Typed, TypeOK
      <4> QED
        BY <2>2, <2>4, <4>1 DEF RefuseUser
    <3>4. KnownUsersExist'
      BY <2>1, <2>2, <3>1, <3>2
    <3>5. \A v \in Workers : pc'[v] = "user_added" => user'[v] \in users' \/ Excused(v)'
      BY <2>1, <2>2, <3>1, <3>2, <3>3
    <3>6. \A v \in Workers : verb'[v] = "upsert" /\ pc'[v] = "add"
                              => user'[v] \in users' \/ overlapped'[v] \/ Excused(v)'
      BY <2>1, <2>2, <3>1, <3>2
    <3> QED
      BY <2>1, <2>2, <3>4, <3>5, <3>6
  <2> QED
    BY <1>6, <2>3, <2>4 DEF UserAdd
<1>7. ASSUME NEW w \in Workers, UserAdded(w) PROVE UserInv'
  <2>1. pc[w] = "user_added" /\ pc'[w] = "add" /\ \A v \in Workers \ {w} : pc'[v] = pc[v]
    BY <1>7 DEF UserAdded, Goto, Typed, TypeOK
  <2>2. /\ known'[ProcessOf[w]] = known[ProcessOf[w]] \cup {user[w]}
        /\ \A p \in Processes \ {ProcessOf[w]} : known'[p] = known[p]
        /\ UNCHANGED <<zep, request, history>>
    BY <1>7 DEF UserAdded, Typed, TypeOK
  <2>3. user[w] \in Workers => user[w] = w
    BY <2>1 DEF Typed, TypeOK, VerbSteps
  <2> QED
    BY <2>1, <2>2, <2>3
<1>8. ASSUME NEW w \in Workers, Add(w) PROVE UserInv'
  <2>1. UNCHANGED <<users, known, verb, user, overlapped, unfounded>> /\ pc[w] = "add"
    BY <1>8 DEF Add
  <2>2. CASE Stored(w)
    <3>1. /\ pc'[w] \in {"poll", "done", "user_add", "add"}
          /\ \A v \in Workers \ {w} : pc'[v] = pc[v]
      BY <2>2, GotoLabel, EnsureUserStep DEF Stored, Labels, Typed
    <3>2. user[w] \in users
      BY <2>2 DEF Stored, Keep
    <3> QED
      BY <2>1, <3>1, <3>2
  <2>3. CASE Unanswered(w) \/ Refused(w)
    <3>1. /\ pc'[w] \in {"cleanup", "failed"}
          /\ \A v \in Workers \ {w} : pc'[v] = pc[v]
      BY <2>3 DEF Unanswered, Refused, OnException, Goto, Typed, TypeOK
    <3> QED
      BY <2>1, <3>1
  <2> QED
    BY <1>8, <2>2, <2>3 DEF Add
<1>9. ASSUME NEW w \in Workers, UserDelete(w) PROVE UserInv'
  <2>1. UNCHANGED <<known, request, lost, overlapped, mistaken>> /\ pc[w] = "user_delete"
    BY <1>9 DEF UserDelete
  <2>2. verb[w] = "delete_scope" /\ Erasing(w)
    BY <2>1 DEF Typed, TypeOK, VerbSteps
  <2>3. CASE /\ Cascade(user[w])
             /\ outdated' = outdated \cup (Misled(w) \X {user[w]})
             /\ Goto(w, "user_deleted")
    <3>1. users' = users \ {user[w]}
      BY <2>3 DEF Cascade
    <3>2. pc'[w] = "user_deleted" /\ \A v \in Workers \ {w} : pc'[v] = pc[v]
      BY <2>3 DEF Goto, Typed, TypeOK
    <3>3. \A p \in Processes : <<p, user[w]>> \in outdated' <=> (<<p, user[w]>> \in outdated \/ p \in Misled(w))
      BY <2>3
    <3>4. \A p \in Processes : p # ProcessOf[w] /\ user[w] \in known[p] => p \in Misled(w)
      BY DEF Misled
    <3>5. \A v \in Workers : pc[v] = "user_added" /\ user[v] = user[w] => ProcessOf[v] \in Misled(w)
      BY DEF Misled, Typed, TypeOK
    <3>6. outdated \subseteq outdated'
      BY <2>3
    <3>7. KnownUsersExist'
      <4> SUFFICES ASSUME NEW p \in Processes, NEW u \in known'[p] \ users'
                   PROVE  \/ Unfounded(p, u)'
                          \/ \E v \in Workers : /\ ProcessOf[v] = p /\ user'[v] = u
                                                /\ pc'[v] = "user_deleted"
        <5>1. \A p \in Processes : \A u \in users' : ~Unfounded(p, u)'
          BY <2>1, <2>3, <3>1
        <5> QED
          BY <5>1
      <4>1. CASE u = user[w] /\ p # ProcessOf[w]
        BY <2>1, <3>3, <3>4, <4>1
      <4>2. CASE u = user[w] /\ p = ProcessOf[w]
        BY <2>1, <3>2, <4>2
      <4>3. CASE u # user[w]
        BY <2>1, <3>1, <3>2, <3>6, <4>3
      <4> QED
        BY <4>1, <4>2, <4>3
    <3>9. \A v \in Workers : pc'[v] = "user_added" => user'[v] \in users' \/ Excused(v)'
      BY <2>1, <2>2, <3>1, <3>2, <3>3, <3>5, <3>6 DEF Typed, TypeOK
    <3>10. \A v \in Workers : verb'[v] = "upsert" /\ pc'[v] = "add"
                               => user'[v] \in users' \/ overlapped'[v] \/ Excused(v)'
      BY <2>1, <2>2, <3>1, <3>2, <3>6
    <3>11. \A v, x \in Workers :
             (Erasing(v) /\ verb[x] = "upsert" /\ Writing(x) /\ user[v] = user[x] => overlapped[x])'
      BY <2>1, <2>2, <3>2
    <3> QED
      BY <2>1, <3>7, <3>9, <3>10, <3>11
  <2>4. CASE Goto(w, "failed") /\ UNCHANGED <<users, userOf, processed, outdated>>
    <3>1. pc'[w] = "failed" /\ \A v \in Workers \ {w} : pc'[v] = pc[v]
      BY <2>4 DEF Goto, Typed, TypeOK
    <3> QED
      BY <2>1, <2>2, <2>4, <3>1
  <2> QED
    BY <1>9, <2>3, <2>4 DEF UserDelete
<1>10. ASSUME NEW w \in Workers, UserDeleted(w) PROVE UserInv'
  <2>1. pc[w] = "user_deleted" /\ pc'[w] = "done" /\ \A v \in Workers \ {w} : pc'[v] = pc[v]
    BY <1>10 DEF UserDeleted, Goto, Typed, TypeOK
  <2>2. /\ known'[ProcessOf[w]] = known[ProcessOf[w]] \ {user[w]}
        /\ \A p \in Processes \ {ProcessOf[w]} : known'[p] = known[p]
        /\ UNCHANGED <<zep, request, history>>
    BY <1>10 DEF UserDeleted, Forgets, Typed, TypeOK
  <2> QED
    BY <2>1, <2>2
<1>11. ASSUME NEW w \in Workers, Poll(w) \/ Wake(w) \/ Deadline(w) PROVE UserInv'
  <2>1. /\ pc[w] \in {"poll", "sleep"} /\ pc'[w] \in {"poll", "sleep", "cleanup"}
        /\ \A v \in Workers \ {w} : pc'[v] = pc[v]
    BY <1>11 DEF Poll, Wake, Deadline, Goto, Typed, TypeOK
  <2>2. UNCHANGED <<zep, known, request, history>>
    BY <1>11 DEF Poll, Wake, Deadline
  <2> QED
    BY <2>1, <2>2
<1>12. ASSUME NEW w \in Workers, Cleanup(w) PROVE UserInv'
  <2>1. pc[w] = "cleanup" /\ pc'[w] = "done" /\ \A v \in Workers \ {w} : pc'[v] = pc[v]
    BY <1>12 DEF Cleanup, Goto, Typed, TypeOK
  <2>2. verb[w] = "self_test"
    BY <2>1 DEF Typed, TypeOK, VerbSteps
  <2>3. users' = users \ {w} \/ users' = users
    BY <1>12 DEF Cleanup, Cascade
  <2>4. /\ known'[ProcessOf[w]] = known[ProcessOf[w]] \ {w}
        /\ \A p \in Processes \ {ProcessOf[w]} : known'[p] = known[p]
        /\ UNCHANGED <<request, history>>
    BY <1>12 DEF Cleanup, Forgets, Typed, TypeOK
  <2>5. \A v \in Workers \ {w} : verb[v] # "none" => user[v] # w
    BY DEF Typed, TypeOK, VerbSteps
  <2>6. KnownUsersExist'
    <3> SUFFICES ASSUME NEW p \in Processes, NEW u \in known'[p] \ users'
                 PROVE  \/ Unfounded(p, u)'
                        \/ \E v \in Workers : /\ ProcessOf[v] = p /\ user'[v] = u
                                              /\ pc'[v] = "user_deleted"
      <4>1. \A q \in Processes : \A x \in users' : ~Unfounded(q, x)'
        <5>1. users' \subseteq users /\ outdated' = outdated /\ mistaken' = mistaken
          BY <2>3, <2>4
        <5> QED
          BY <5>1
      <4> QED
        BY <4>1
    <3>1. u # w
      BY <2>4
    <3>2. u \in known[p] \ users
      BY <2>3, <2>4, <3>1
    <3> QED
      BY <2>1, <2>4, <3>2
  <2> QED
    BY <2>1, <2>2, <2>3, <2>4, <2>5, <2>6 DEF Typed, VerbSteps
<1>13. ASSUME NEW w \in Workers, Fail(w) PROVE UserInv'
  <2>1. /\ pc[w] \in {"user_add", "user_added", "add", "user_delete", "user_deleted"}
        /\ pc'[w] \in {"cleanup", "failed"}
        /\ \A v \in Workers \ {w} : pc'[v] = pc[v]
    BY <1>13 DEF Fail, OnException, Goto, Typed, TypeOK
  <2>2. /\ outdated \subseteq outdated'
        /\ outdated' \subseteq outdated \cup {<<ProcessOf[w], user[w]>>}
        /\ user[w] \in users => outdated' = outdated
        /\ pc[w] = "user_deleted" /\ user[w] \in known[ProcessOf[w]] \ users => Excused(w)'
        /\ UNCHANGED <<zep, known, request, overlapped, mistaken>>
    BY <1>13 DEF Fail, Knows
  <2> QED
    BY <2>1, <2>2
<1>14. ASSUME NEW w \in Workers, Reply(w) PROVE UserInv'
  <2>1. /\ pc[w] \in {"done", "failed"} /\ pc'[w] = "idle" /\ verb'[w] = "none"
        /\ \A v \in Workers \ {w} : /\ pc'[v] = pc[v] /\ verb'[v] = verb[v] /\ user'[v] = user[v]
                                     /\ lost'[v] = lost[v] /\ overlapped'[v] = overlapped[v]
    BY <1>14 DEF Reply, Ended, Goto, Typed, TypeOK
  <2>2. UNCHANGED <<zep, known, unfounded>>
    BY <1>14 DEF Reply
  <2>3. KnownUsersExist'
    <3> SUFFICES ASSUME NEW p \in Processes, NEW u \in known'[p] \ users'
                 PROVE  \/ Unfounded(p, u)'
                        \/ \E v \in Workers : /\ ProcessOf[v] = p /\ user'[v] = u
                                              /\ pc'[v] = "user_deleted"
      <4>1. \A q \in Processes : \A x \in users' : ~Unfounded(q, x)'
        BY <2>2
      <4> QED
        BY <4>1
    <3>1. \/ Unfounded(p, u)
          \/ \E v \in Workers : ProcessOf[v] = p /\ user[v] = u /\ pc[v] = "user_deleted"
      BY <2>2
    <3>2. CASE Unfounded(p, u)
      BY <2>2, <3>2
    <3>3. ASSUME NEW v \in Workers, ProcessOf[v] = p, user[v] = u, pc[v] = "user_deleted"
          PROVE  user'[v] = u /\ pc'[v] = "user_deleted"
      BY <2>1, <3>3
    <3> QED
      BY <3>1, <3>2, <3>3
  <2>5. \A v \in Workers : pc'[v] = "user_added" => user'[v] \in users' \/ Excused(v)'
    BY <2>1, <2>2
  <2>6. \A v \in Workers : verb'[v] = "upsert" /\ pc'[v] = "add"
                            => user'[v] \in users' \/ overlapped'[v] \/ Excused(v)'
    BY <2>1, <2>2
  <2>7. \A v, x \in Workers :
          (Erasing(v) /\ verb[x] = "upsert" /\ Writing(x) /\ user[v] = user[x] => overlapped[x])'
    BY <2>1
  <2> QED
    BY <2>2, <2>3, <2>5, <2>6, <2>7
<1> QED
  BY <1>1, <1>2, <1>3, <1>4, <1>5, <1>6, <1>7, <1>8, <1>9, <1>10, <1>11, <1>12, <1>13, <1>14
  DEF Next, Step

\* A user a process knows exists, or the process is misled in a way that is
\* accounted for (_ensure_user, delete_scope).
THEOREM CacheIsTrue == Spec => []KnownUsersExist
<1>1. UserInv => KnownUsersExist
  BY DEF UserInv
<1> QED
  BY <1>1, InitUser, NextUser, PTL DEF Spec

FailsForAReason(w) ==
  verb[w] = "upsert" /\ pc[w] # "failed" /\ pc'[w] = "failed" =>
    lost'[w] \/ overlapped[w] \/ Unfounded(ProcessOf[w], user[w])

\* Only the worker's own steps end its write, and of those that end it in an
\* exception each but the refusal of graph.add is a lost call.
LEMMA FailingStep ==
  ASSUME UserInv, [Next]_vars, NEW w \in Workers
  PROVE  FailsForAReason(w)
<1> SUFFICES ASSUME verb[w] = "upsert", pc[w] # "failed", pc'[w] = "failed"
             PROVE  lost'[w] \/ overlapped[w] \/ Unfounded(ProcessOf[w], user[w])
  BY DEF FailsForAReason
<1>t. TypeOK /\ VerbSteps
  BY DEF UserInv, Typed
<1>1. PICK v \in Workers :
        Upsert(v) \/ DeleteScope(v) \/ SelfTest(v) \/ Step(v) \/ Deadline(v) \/ Fail(v) \/ Reply(v)
  BY DEF Next, Build, vars
<1>2. v = w
  <2>1. pc'[v] # pc[v] => \A x \in Workers \ {v} : pc'[x] = pc[x]
    <3>1. CASE Upsert(v) \/ SelfTest(v)
      BY <3>1, <1>t DEF Upsert, SelfTest, EnsureUser, Goto, TypeOK
    <3>2. CASE DeleteScope(v) \/ Deadline(v) \/ Fail(v) \/ Reply(v)
      BY <3>2, <1>t DEF DeleteScope, Deadline, Fail, Reply, Goto, TypeOK
    <3>3. CASE UserAdd(v) \/ UserAdded(v) \/ UserDelete(v) \/ UserDeleted(v)
      BY <3>3, <1>t DEF UserAdd, Create, RefuseUser, UserAdded, UserDelete, UserDeleted, Goto, TypeOK
    <3>4. CASE Poll(v) \/ Wake(v) \/ Cleanup(v)
      BY <3>4, <1>t DEF Poll, Wake, Cleanup, Goto, TypeOK
    <3>5. CASE Add(v)
      BY <3>5, <1>t DEF Add, Stored, Unanswered, Refused, EnsureUser, Goto, TypeOK
    <3> QED
      BY <1>1, <3>1, <3>2, <3>3, <3>4, <3>5 DEF Step
  <2>2. pc'[v] = pc[v] => pc' = pc
    <3>1. \E label : pc' = [pc EXCEPT ![v] = label] \/ pc' = pc
      <4>1. CASE Upsert(v) \/ SelfTest(v)
        BY <4>1 DEF Upsert, SelfTest, EnsureUser, Goto
      <4>2. CASE DeleteScope(v) \/ Deadline(v) \/ Fail(v) \/ Reply(v)
        BY <4>2 DEF DeleteScope, Deadline, Fail, Reply, Goto
      <4>3. CASE UserAdd(v) \/ UserAdded(v) \/ UserDelete(v) \/ UserDeleted(v)
        BY <4>3 DEF UserAdd, Create, RefuseUser, UserAdded, UserDelete, UserDeleted, Goto
      <4>4. CASE Poll(v) \/ Wake(v) \/ Cleanup(v)
        BY <4>4 DEF Poll, Wake, Cleanup, Goto
      <4>5. CASE Add(v)
        BY <4>5 DEF Add, Stored, Unanswered, Refused, EnsureUser, Goto
      <4> QED
        BY <1>1, <4>1, <4>2, <4>3, <4>4, <4>5 DEF Step
    <3> QED
      BY <1>t, <3>1 DEF TypeOK
  <2> QED
    BY <2>1, <2>2
<1>3. pc[w] \in {"user_add", "user_added", "add"}
  <2>1. pc[w] \in {"user_add", "user_added", "add", "done"}
    BY <1>t DEF VerbSteps
  <2>2. pc[w] = "done" => Reply(w)
    BY <1>1, <1>2 DEF Upsert, DeleteScope, SelfTest, Call, Deadline, Fail, Step, UserAdd, UserAdded,
       Add, UserDelete, UserDeleted, Poll, Wake, Cleanup
  <2>3. ~Reply(w)
    BY <1>t DEF Reply, Goto, TypeOK
  <2> QED
    BY <2>1, <2>2, <2>3
<1>4. CASE Fail(w)
  BY <1>4, <1>t DEF Fail, TypeOK
<1>5. CASE UserAdd(w)
  <2>1. ~Create(w)
    BY <1>t DEF Create, Goto, TypeOK
  <2>2. PICK exc \in Refusals : RefuseUser(w, exc)
    BY <1>5, <2>1 DEF UserAdd
  <2>3. exc = "other"
    BY <1>t, <2>2 DEF RefuseUser, IsConflict, Refusals, Goto, TypeOK
  <2> QED
    BY <1>t, <2>2, <2>3 DEF RefuseUser, TypeOK
<1>6. CASE Add(w)
  <2>1. CASE Stored(w)
    <3>1. pc'[w] # "failed"
      BY <2>1, <1>t, EnsureUserStep DEF Stored, Goto, TypeOK
    <3> QED
      BY <3>1
  <2>2. CASE Unanswered(w)
    BY <2>2, <1>t DEF Unanswered, TypeOK
  <2>3. CASE Refused(w)
    BY <1>6, <2>3 DEF Add, Refused, UserInv, Excused
  <2> QED
    BY <1>6, <2>1, <2>2, <2>3 DEF Add
<1>7. CASE UserAdded(w)
  BY <1>7, <1>t DEF UserAdded, Goto, TypeOK
<1> QED
  BY <1>1, <1>2, <1>3, <1>4, <1>5, <1>6, <1>7
  DEF Upsert, DeleteScope, SelfTest, Call, Deadline, Reply, Ended, Step, UserDelete,
      UserDeleted, Poll, Wake, Cleanup

\* A write fails only in a step in which a call of it is lost, or after an
\* erasure of its user beside it, or because its process takes for a user one
\* that is none at that moment (_add, _ensure_user).
THEOREM WritesFailForAReason == Spec => WriteFailsForAReason
<1>1. UserInv /\ [Next]_vars => [\A w \in Workers : FailsForAReason(w)]_vars
  BY FailingStep
<1> QED
  BY <1>1, InitUser, NextUser, PTL DEF Spec, WriteFailsForAReason, FailsForAReason

-----------------------------------------------------------------------------
(* What a probe leaves behind.                                              *)

Clean(w) ==
  /\ w \notin known[ProcessOf[w]]
  /\ stranded[w] \/ (w \notin users /\ \A e \in Episodes : userOf[e] # w)

ProbeInv ==
  /\ Typed
  /\ \A w \in Workers : verb[w] = "self_test" /\ pc[w] = "done" => Clean(w)

LEMMA InitProbe == Init => ProbeInv
<1> SUFFICES ASSUME Init PROVE ProbeInv
  OBVIOUS
<1>1. Typed
  BY InitTyped
<1> QED
  BY <1>1 DEF Init, ProbeInv

\* A probe that has ended takes no step, and nobody else acts for its user.
LEMMA OthersActForOthers ==
  ASSUME Typed, NEW w \in Workers, verb[w] = "self_test",
         NEW v \in Workers \ {w}, verb[v] # "none"
  PROVE  user[v] # w
  BY ZepAssumption DEF Typed, TypeOK, VerbSteps

LEMMA NextProbe == ProbeInv /\ [Next]_vars => ProbeInv'
<1> SUFFICES ASSUME ProbeInv, [Next]_vars,
                    NEW w \in Workers, verb'[w] = "self_test", pc'[w] = "done"
             PROVE  Clean(w)'
  BY NextTyped DEF ProbeInv
<1> USE ZepAssumption
<1>t. Typed /\ TypeOK /\ VerbSteps
  BY DEF ProbeInv, Typed
\* Unless this is the end of its cleanup, the probe had ended before.
<1>1. CASE verb[w] = "self_test" /\ pc[w] = "done"
  <2>1. Clean(w)
    BY <1>1 DEF ProbeInv
  <2>2. CASE UNCHANGED vars
    BY <2>1, <2>2 DEF vars, zep, probing, Clean
  <2>3. CASE Build
    BY <2>1, <2>3 DEF Build, probing, Clean
  <2>4. ASSUME NEW v \in Workers,
               Upsert(v) \/ DeleteScope(v) \/ SelfTest(v) \/ Deadline(v) \/ Fail(v) \/ Reply(v)
                 \/ Poll(v) \/ Wake(v)
        PROVE  Clean(w)'
    <3>1. UNCHANGED <<users, userOf, known, stranded>>
      BY <2>4 DEF Upsert, DeleteScope, SelfTest, Deadline, Fail, Reply, Poll, Wake, zep, probing
    <3> QED
      BY <2>1, <3>1 DEF Clean
  <2>5. ASSUME NEW v \in Workers,
               UserAdd(v) \/ UserAdded(v) \/ Add(v) \/ UserDelete(v) \/ UserDeleted(v) \/ Cleanup(v)
        PROVE  Clean(w)'
    <3>1. pc[v] # "done" /\ pc[v] # "idle"
      BY <2>5 DEF UserAdd, UserAdded, Add, UserDelete, UserDeleted, Cleanup
    <3>2. v # w /\ verb[v] # "none"
      BY <1>1, <1>t, <3>1 DEF VerbSteps, TypeOK
    <3>3. user[v] # w
      BY <1>1, <1>t, <3>2, OthersActForOthers
    <3>4. UNCHANGED stranded \/ stranded' = [stranded EXCEPT ![v] = TRUE]
      BY <2>5 DEF UserAdd, UserAdded, Add, UserDelete, UserDeleted, Cleanup, probing
    <3>5. stranded'[w] = stranded[w]
      BY <1>t, <3>2, <3>4 DEF TypeOK
    <3>6. w \notin known'[ProcessOf[w]]
      <4>1. w \notin known[ProcessOf[w]]
        BY <2>1 DEF Clean
      <4>2. \/ UNCHANGED known
            \/ \E p \in Processes : known' = [known EXCEPT ![p] = @ \cup {user[v]}]
            \/ \E p \in Processes, u \in AllUsers : known' = [known EXCEPT ![p] = @ \ {u}]
        <5>1. ProcessOf[v] \in Processes /\ v \in AllUsers
          BY DEF AllUsers
        <5>2. CASE UserDeleted(v)
          <6>1. user[v] \in AllUsers
            BY <1>t, <3>2, <5>2 DEF VerbSteps, TypeOK, UserDeleted, AllUsers
          <6> QED
            BY <5>1, <5>2, <6>1 DEF UserDeleted, Forgets
        <5>3. CASE Cleanup(v)
          BY <5>1, <5>3 DEF Cleanup, Forgets
        <5>4. CASE UserAdd(v) \/ UserAdded(v) \/ Add(v) \/ UserDelete(v)
          BY <5>1, <5>4 DEF UserAdd, UserAdded, Add, UserDelete, zep
        <5> QED
          BY <2>5, <5>2, <5>3, <5>4
      <4> QED
        BY <1>t, <3>3, <4>1, <4>2 DEF TypeOK
    <3>7. w \notin users => w \notin users'
      BY <2>5, <3>3 DEF UserAdd, Create, RefuseUser, UserAdded, Add, UserDelete, UserDeleted, Cleanup, Cascade, zep
    <3>8. (\A e \in Episodes : userOf[e] # w) => \A e \in Episodes : userOf'[e] # w
      <4>1. w # None
        BY DEF AllUsers
      <4>2. CASE UserAdd(v) \/ UserAdded(v) \/ UserDeleted(v)
        BY <4>2 DEF UserAdd, UserAdded, UserDeleted, zep
      <4>3. CASE UserDelete(v) \/ Cleanup(v)
        BY <4>1, <4>3 DEF UserDelete, Cleanup, Cascade
      <4>4. CASE Add(v)
        BY <1>t, <3>3, <4>4 DEF Add, Stored, Unanswered, Keep, Refused, TypeOK
      <4> QED
        BY <2>5, <4>2, <4>3, <4>4
    <3> QED
      BY <2>1, <3>5, <3>6, <3>7, <3>8 DEF Clean
  <2> QED
    BY <2>2, <2>3, <2>4, <2>5 DEF Next, Step
<1>2. CASE ~(verb[w] = "self_test" /\ pc[w] = "done")
  <2>1. CASE Cleanup(w)
    <3>1. w \notin known'[ProcessOf[w]]
      BY <1>t, <2>1 DEF Cleanup, Forgets, TypeOK
    <3>2. CASE Cascade(w)
      <4>1. w # None
        BY DEF AllUsers
      <4> QED
        BY <3>1, <3>2, <4>1 DEF Cascade, Clean
    <3>3. CASE stranded' = [stranded EXCEPT ![w] = TRUE]
      BY <1>t, <3>1, <3>3 DEF Clean, TypeOK
    <3> QED
      BY <2>1, <3>2, <3>3 DEF Cleanup
  <2>2. CASE UNCHANGED vars \/ Build
    BY <1>2, <2>2 DEF vars, Build, request
  <2>3. ASSUME NEW v \in Workers, v # w,
               Upsert(v) \/ DeleteScope(v) \/ SelfTest(v) \/ Deadline(v) \/ Fail(v) \/ Reply(v)
                 \/ Step(v)
        PROVE  FALSE
    <3>1. verb'[w] = verb[w]
      BY <1>t, <2>3 DEF Upsert, DeleteScope, SelfTest, Call, Deadline, Fail, Reply, Step, UserAdd,
         UserAdded, Add, UserDelete, UserDeleted, Poll, Wake, Cleanup, request, TypeOK
    <3>2. pc'[w] = pc[w]
      <4>1. CASE Upsert(v) \/ DeleteScope(v) \/ SelfTest(v) \/ Deadline(v) \/ Fail(v) \/ Reply(v)
        BY <1>t, <2>3, <4>1 DEF Upsert, DeleteScope, SelfTest, EnsureUser, Deadline, Fail, Reply,
           Goto, TypeOK
      <4>2. CASE UserAdd(v) \/ UserAdded(v) \/ UserDelete(v) \/ UserDeleted(v) \/ Poll(v) \/ Wake(v)
                   \/ Cleanup(v)
        BY <1>t, <2>3, <4>2 DEF UserAdd, Create, RefuseUser, UserAdded, UserDelete, UserDeleted, Poll, Wake, Cleanup,
           Goto, TypeOK
      <4>3. CASE Add(v)
        BY <1>t, <2>3, <4>3 DEF Add, Stored, Unanswered, Refused, EnsureUser, Goto, TypeOK
      <4> QED
        BY <2>3, <4>1, <4>2, <4>3 DEF Step
    <3> QED
      BY <1>2, <3>1, <3>2
  <2>4. CASE Upsert(w) \/ DeleteScope(w) \/ SelfTest(w) \/ Reply(w)
    BY <1>t, <2>4 DEF Upsert, DeleteScope, SelfTest, EnsureUser, Reply, Goto, TypeOK
  <2>5. CASE Deadline(w) \/ Fail(w) \/ UserAdd(w) \/ UserAdded(w) \/ Add(w) \/ UserDelete(w)
               \/ UserDeleted(w) \/ Poll(w) \/ Wake(w)
    <3>1. verb[w] = "self_test"
      BY <2>5 DEF Deadline, Fail, UserAdd, UserAdded, Add, UserDelete, UserDeleted, Poll, Wake, request
    <3>2. pc[w] \notin {"user_delete", "user_deleted"}
      BY <1>t, <3>1 DEF VerbSteps
    <3>3. CASE Deadline(w) \/ Fail(w) \/ UserAdd(w) \/ UserAdded(w) \/ UserDelete(w) \/ UserDeleted(w)
                 \/ Poll(w) \/ Wake(w)
      BY <1>2, <1>t, <3>1, <3>2, <3>3 DEF Deadline, Fail, UserAdd, Create, RefuseUser, UserAdded, UserDelete, UserDeleted,
         Poll, Wake, OnException, Goto, TypeOK
    <3>4. CASE Add(w)
      BY <1>t, <3>1, <3>4 DEF Add, Stored, Unanswered, Refused, OnException, Goto, TypeOK
    <3> QED
      BY <2>5, <3>3, <3>4
  <2> QED
    BY <2>1, <2>2, <2>3, <2>4, <2>5 DEF Next, Step
<1> QED
  BY <1>1, <1>2

\* "deletes the subject either way": a probe that has ended left neither a user
\* nor an episode nor a memory of the user, whatever call of it failed or went
\* unanswered, unless the deletion itself failed (self_test).
THEOREM ProbesLeaveNothing == Spec => []ProbeLeavesNothing
<1>1. ProbeInv => ProbeLeavesNothing
  BY DEF ProbeInv, ProbeLeavesNothing, Ended, Typed, VerbSteps, Clean
<1> QED
  BY <1>1, InitProbe, NextProbe, PTL DEF Spec
==============================================================================
