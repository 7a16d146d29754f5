--------------------------------- MODULE Zep ---------------------------------
(***************************************************************************)
(* The Zep adapter (adapters/zep.py): a user has to exist before anything  *)
(* is added to its graph, each process remembers which users it has seen   *)
(* to exist, an erasure deletes the user, and the self test of doctor      *)
(* --probe writes to a user of its own and deletes it.                     *)
(*                                                                         *)
(* Zep itself is external.  A call of it takes effect at once and may then *)
(* be answered or not; where what the adapter remembers depends on the     *)
(* answer, effect and answer are steps of their own.  Whether an episode   *)
(* is ever processed is up to Zep.                                         *)
(*                                                                         *)
(* An end-user stands for its user_id (tenant and subject); a probe's user *)
(* is named by the worker that probes.                                     *)
(***************************************************************************)
EXTENDS Naturals, FiniteSets

CONSTANTS
  Users,
  Episodes,    (* bound: episodes Zep holds at once                 *)
  Processes,   (* processes, each with an adapter                   *)
  Workers,     (* bound: verbs being served at once                 *)
  ProcessOf,   (* the process each is served by                     *)
  Verbs,       (* the verbs each may serve                          *)
  MaxFacts,    (* bound: facts of one write                         *)
  None

ASSUME ZepAssumption ==
  /\ ProcessOf \in [Workers -> Processes]
  /\ Verbs \in [Workers -> SUBSET {"upsert", "delete_scope", "self_test"}]
  /\ Users \cap Workers = {}
  /\ None \notin Users \cup Workers \cup Episodes
  /\ MaxFacts \in Nat \ {0}

AllUsers == Users \cup Workers

VARIABLES
  builds,       (* whether Zep processes what it is given; it never changes  *)
  users,        (* the users there are                                       *)
  userOf,       (* the user of each episode held, else None                  *)
  processed,    (* those Zep has made edges of                               *)
  known,        (* _known_users of each process                              *)
  pc, verb, user, facts, episode,   (* a worker's next step and its locals   *)
  expired,      (* self_test: the deadline has passed                        *)
  lost,         (* history: a call of the verb failed or went unanswered     *)
  overlapped,   (* history: an erasure of its user went on during the write  *)
  stranded,     (* history: self_test could not delete its user              *)
  outdated,     (* history: who may know a user that is gone since           *)
  mistaken      (* history: who took a refusal for a user that is there      *)

zep == <<builds, users, userOf, processed>>
request == <<verb, user, facts>>
probing == <<expired, stranded>>
unfounded == <<outdated, mistaken>>
history == <<lost, overlapped, unfounded>>
vars == <<zep, known, pc, request, episode, probing, history>>

Init ==
  /\ builds \in BOOLEAN
  /\ users = {}
  /\ userOf = [e \in Episodes |-> None]
  /\ processed = {}
  /\ known = [p \in Processes |-> {}]
  /\ pc = [w \in Workers |-> "idle"]
  /\ verb = [w \in Workers |-> "none"]
  /\ user = [w \in Workers |-> None]
  /\ facts = [w \in Workers |-> 0]
  /\ episode = [w \in Workers |-> None]
  /\ expired = [w \in Workers |-> FALSE]
  /\ lost = [w \in Workers |-> FALSE]
  /\ overlapped = [w \in Workers |-> FALSE]
  /\ stranded = [w \in Workers |-> FALSE]
  /\ outdated = {} /\ mistaken = {}

Goto(w, label) == pc' = [pc EXCEPT ![w] = label]

Knows(w) == user[w] \in known[ProcessOf[w]]
Erasing(w) == verb[w] = "delete_scope" /\ pc[w] \in {"user_delete", "user_deleted"}
Writing(w) == pc[w] \in {"user_add", "user_added", "add"}
Ended(w) == pc[w] \in {"done", "failed"}

-----------------------------------------------------------------------------
(* Writes.  ingest is an upsert of one fact.                                *)

\* _ensure_user asks Zep only about users it does not know.
EnsureUser(w, p, u) == Goto(w, IF u \in known[p] THEN "add" ELSE "user_add")

Call(w, v, u, k) ==
  /\ pc[w] = "idle"
  /\ v \in Verbs[w]
  /\ verb' = [verb EXCEPT ![w] = v]
  /\ user' = [user EXCEPT ![w] = u]
  /\ facts' = [facts EXCEPT ![w] = k]

Upsert(w) ==
  /\ \E u \in Users, k \in 1..MaxFacts :
       /\ Call(w, "upsert", u, k)
       /\ EnsureUser(w, ProcessOf[w], u)
       /\ overlapped' = [overlapped EXCEPT ![w] = \E v \in Workers : Erasing(v) /\ user[v] = u]
  /\ UNCHANGED <<zep, known, episode, probing, lost, unfounded>>

\* Mutant: a self test that raises leaves its user behind.
Raises(w) == "failed"

\* A verb that meets an exception raises; a self test goes on to clean up.
OnException(w) == IF verb[w] = "self_test" THEN "cleanup" ELSE "failed"

\* What a refusal of user.add says: the user is there already, it answers with
\* a 400 or with "exist" somewhere in its message, or it is of any other kind.
Refusals == {"exists", "bad_request", "other"}

\* Mutant: the 409 of a user somebody else created is an error.
BadRequestsOnly(exc) == exc = "bad_request"

\* _is_conflict: "Already existing is the common case and not an error."
IsConflict(exc) == exc \in {"exists", "bad_request"}

\* Whoever was misled about a user is right again once there is one.
Create(w) ==
  /\ user[w] \notin users
  /\ users' = users \cup {user[w]}
  /\ outdated' = outdated \ (Processes \X {user[w]})
  /\ mistaken' = mistaken \ (Processes \X {user[w]})
  /\ Goto(w, "user_added")
  /\ UNCHANGED lost

\* A conflict is passed over, also when there is no user; all else is raised.
RefuseUser(w, exc) ==
  /\ exc = "exists" => user[w] \in users
  /\ Goto(w, IF IsConflict(exc) THEN "user_added" ELSE OnException(w))
  /\ mistaken' = IF IsConflict(exc) /\ user[w] \notin users
                 THEN mistaken \cup {<<ProcessOf[w], user[w]>>} ELSE mistaken
  /\ lost' = [lost EXCEPT ![w] = @ \/ exc = "other"]
  /\ UNCHANGED <<users, outdated>>

UserAdd(w) ==
  /\ pc[w] = "user_add"
  /\ Create(w) \/ \E exc \in Refusals : RefuseUser(w, exc)
  /\ UNCHANGED <<builds, userOf, processed, known, request, episode, probing, overlapped>>

UserAdded(w) ==
  /\ pc[w] = "user_added"
  /\ known' = [known EXCEPT ![ProcessOf[w]] = @ \cup {user[w]}]
  /\ Goto(w, "add")
  /\ UNCHANGED <<zep, request, episode, probing, history>>

\* Ids are never issued again while somebody remembers them.
Unissued == {e \in Episodes : userOf[e] = None /\ \A w \in Workers : episode[w] # e}

LastFact(w) == facts[w] = 1

\* graph.add gives the user an episode.
Keep(w, e) ==
  /\ user[w] \in users
  /\ userOf' = [userOf EXCEPT ![e] = user[w]]

Stored(w) ==
  /\ \E e \in Unissued :
       /\ Keep(w, e)
       /\ episode' = [episode EXCEPT ![w] = IF verb[w] = "self_test" THEN e ELSE None]
  /\ facts' = [facts EXCEPT ![w] = @ - 1]
  /\ CASE verb[w] = "self_test" -> Goto(w, "poll")
       [] verb[w] = "upsert" /\ LastFact(w) -> Goto(w, "done")
       [] OTHER -> EnsureUser(w, ProcessOf[w], user[w])
  /\ UNCHANGED lost

\* It is carried out, but not answered, or answered without an id.
Unanswered(w) ==
  /\ \E e \in Unissued : Keep(w, e)
  /\ Goto(w, OnException(w))
  /\ lost' = [lost EXCEPT ![w] = TRUE]
  /\ UNCHANGED <<facts, episode>>

\* graph.add of a user that does not exist is refused.
Refused(w) ==
  /\ user[w] \notin users
  /\ Goto(w, OnException(w))
  /\ UNCHANGED <<userOf, facts, episode, lost>>

Add(w) ==
  /\ pc[w] = "add"
  /\ Stored(w) \/ Unanswered(w) \/ Refused(w)
  /\ UNCHANGED <<builds, users, processed, known, verb, user, probing, overlapped, unfounded>>

\* Zep builds the graph after the write has returned; it is shown only of the
\* episodes somebody asks about.
Build ==
  /\ builds
  /\ \E e \in Episodes \ processed :
       /\ userOf[e] # None
       /\ \E w \in Workers : episode[w] = e
       /\ processed' = processed \cup {e}
  /\ UNCHANGED <<builds, users, userOf, known, pc, request, episode, probing, history>>

-----------------------------------------------------------------------------
(* Erasure.  The count of edges that goes before it changes nothing, and    *)
(* its failure is ignored.                                                  *)

DeleteScope(w) ==
  /\ \E u \in Users :
       /\ Call(w, "delete_scope", u, 0)
       /\ overlapped' = [v \in Workers |->
                           overlapped[v] \/ (verb[v] = "upsert" /\ Writing(v) /\ user[v] = u)]
  /\ Goto(w, "user_delete")
  /\ UNCHANGED <<zep, known, episode, probing, lost, unfounded>>

\* Deleting a user cascades through its graph.
Cascade(u) ==
  /\ users' = users \ {u}
  /\ userOf' = [e \in Episodes |-> IF userOf[e] = u THEN None ELSE userOf[e]]
  /\ processed' = {e \in processed : userOf[e] # u}

\* The processes that go on taking a deleted user for one that exists: all
\* others that know it, and any that is just being told that it does.
Misled(w) ==
  {p \in Processes :
     \/ p # ProcessOf[w] /\ user[w] \in known[p]
     \/ \E v \in Workers : ProcessOf[v] = p /\ pc[v] = "user_added" /\ user[v] = user[w]}

UserDelete(w) ==
  /\ pc[w] = "user_delete"
  /\ \/ /\ user[w] \in users
        /\ Cascade(user[w])
        /\ outdated' = outdated \cup (Misled(w) \X {user[w]})
        /\ Goto(w, "user_deleted")
     \/ /\ user[w] \notin users
        /\ Goto(w, "failed")
        /\ UNCHANGED <<users, userOf, processed, outdated>>
  /\ UNCHANGED <<builds, known, request, episode, probing, lost, overlapped, mistaken>>

\* Mutant: the user is not forgotten.
Keeps(p, u) == known' = known

Forgets(p, u) == known' = [known EXCEPT ![p] = @ \ {u}]

UserDeleted(w) ==
  /\ pc[w] = "user_deleted"
  /\ Forgets(ProcessOf[w], user[w])
  /\ Goto(w, "done")
  /\ UNCHANGED <<zep, request, episode, probing, history>>

-----------------------------------------------------------------------------
(* self_test.                                                               *)

SelfTest(w) ==
  /\ Call(w, "self_test", w, 1)
  /\ EnsureUser(w, ProcessOf[w], w)
  /\ UNCHANGED <<zep, known, episode, probing, history>>

\* Time passes; the deadline is looked at only by the loop.
Deadline(w) ==
  /\ pc[w] \in {"poll", "sleep"}
  /\ ~expired[w]
  /\ expired' = [expired EXCEPT ![w] = TRUE]
  /\ UNCHANGED <<zep, known, pc, request, episode, stranded, history>>

\* Mutant: the probe waits for as long as it takes.
NoDeadline(w) == FALSE

TimeIsUp(w) == expired[w]

\* Whether the episode is processed; an answer that fails counts as "not yet".
Poll(w) ==
  /\ pc[w] = "poll"
  /\ \/ (TimeIsUp(w) \/ episode[w] \in processed) /\ Goto(w, "cleanup")
     \/ ~TimeIsUp(w) /\ Goto(w, "sleep")
  /\ UNCHANGED <<zep, known, request, episode, probing, history>>

Wake(w) ==
  /\ pc[w] = "sleep"
  /\ Goto(w, "poll")
  /\ UNCHANGED <<zep, known, request, episode, probing, history>>

\* Deleting the probe's user is best effort, forgetting it is not.
Cleanup(w) ==
  /\ pc[w] = "cleanup"
  /\ \/ Cascade(w) /\ UNCHANGED stranded
     \/ stranded' = [stranded EXCEPT ![w] = TRUE] /\ UNCHANGED <<users, userOf, processed>>
  /\ Forgets(ProcessOf[w], w)
  /\ Goto(w, "done")
  /\ UNCHANGED <<builds, request, episode, expired, history>>

-----------------------------------------------------------------------------

\* A call is refused before it takes effect, or its answer is lost after it
\* did: the exception leaves the verb.  A lost answer to the deletion of a user
\* leaves the user known.
Fail(w) ==
  /\ pc[w] \in {"user_added", "add", "user_delete", "user_deleted"}
  /\ Goto(w, OnException(w))
  /\ lost' = [lost EXCEPT ![w] = TRUE]
  /\ outdated' = IF pc[w] = "user_deleted" /\ Knows(w) /\ user[w] \notin users
                 THEN outdated \cup {<<ProcessOf[w], user[w]>>} ELSE outdated
  /\ UNCHANGED <<zep, known, request, episode, probing, overlapped, mistaken>>

\* The verb has returned or raised; its locals are gone.  Every probe has a user
\* of its own, so a worker probes once.
Reply(w) ==
  /\ Ended(w)
  /\ verb[w] # "self_test"
  /\ Goto(w, "idle")
  /\ verb' = [verb EXCEPT ![w] = "none"]
  /\ user' = [user EXCEPT ![w] = None]
  /\ facts' = [facts EXCEPT ![w] = 0]
  /\ lost' = [lost EXCEPT ![w] = FALSE]
  /\ overlapped' = [overlapped EXCEPT ![w] = FALSE]
  /\ UNCHANGED <<zep, known, episode, probing, unfounded>>

Step(w) ==
  \/ UserAdd(w) \/ UserAdded(w) \/ Add(w) \/ UserDelete(w) \/ UserDeleted(w)
  \/ Poll(w) \/ Wake(w) \/ Cleanup(w)

Next ==
  \/ Build
  \/ \E w \in Workers :
       Upsert(w) \/ DeleteScope(w) \/ SelfTest(w) \/ Step(w) \/ Deadline(w) \/ Fail(w) \/ Reply(w)

Spec == Init /\ [][Next]_vars

\* Calls are answered or fail, and time passes; nothing says that Zep builds.
FairSpec == Spec /\ \A w \in Workers : WF_vars(Step(w)) /\ WF_vars(Deadline(w))

-----------------------------------------------------------------------------
(* Properties.                                                              *)

\* The types; an episode belongs to a user there is.
TypeOK ==
  /\ builds \in BOOLEAN
  /\ users \subseteq AllUsers
  /\ userOf \in [Episodes -> AllUsers \cup {None}]
  /\ processed \subseteq Episodes
  /\ known \in [Processes -> SUBSET AllUsers]
  /\ pc \in [Workers -> {"idle", "user_add", "user_added", "add", "poll", "sleep", "cleanup",
                         "user_delete", "user_deleted", "done", "failed"}]
  /\ verb \in [Workers -> {"none", "upsert", "delete_scope", "self_test"}]
  /\ user \in [Workers -> AllUsers \cup {None}]
  /\ facts \in [Workers -> 0..MaxFacts]
  /\ episode \in [Workers -> Episodes \cup {None}]
  /\ expired \in [Workers -> BOOLEAN]
  /\ lost \in [Workers -> BOOLEAN] /\ overlapped \in [Workers -> BOOLEAN]
  /\ stranded \in [Workers -> BOOLEAN]
  /\ outdated \subseteq Processes \X AllUsers /\ mistaken \subseteq Processes \X AllUsers
  /\ \A e \in Episodes : userOf[e] # None => userOf[e] \in users

\* A process may take for a user one that is none, as the histories have it.
Unfounded(p, u) == <<p, u>> \in outdated \cup mistaken

\* What _known_users says is true: a user a process knows exists, unless the
\* process is about to forget it, another process deleted it, the deletion
\* overtook or lost an answer, or Zep refused to create it in words that
\* _is_conflict takes for "it is there" -- and whoever was misled is so only
\* until somebody creates the user.
KnownUsersExist ==
  /\ \A p \in Processes : \A u \in known[p] \ users :
       \/ Unfounded(p, u)
       \/ \E w \in Workers :
            ProcessOf[w] = p /\ user[w] = u /\ pc[w] = "user_deleted"
  /\ \A p \in Processes : \A u \in users : ~Unfounded(p, u)

\* A write fails for a reason: at that moment a call of it failed or went
\* unanswered, or its user was being erased meanwhile, or the process is misled
\* about it.  That another write creates the user first is not one.
WriteFailsForAReason ==
  [][\A w \in Workers :
       verb[w] = "upsert" /\ pc[w] # "failed" /\ pc'[w] = "failed" =>
         lost'[w] \/ overlapped[w] \/ Unfounded(ProcessOf[w], user[w])]_vars

\* "deletes the subject either way" (self_test): whatever call of the probe
\* failed, or was carried out and not answered, when it has ended its user, its
\* episode and the memory of it are gone, unless the deletion itself failed.
ProbeLeavesNothing ==
  \A w \in Workers :
    verb[w] = "self_test" /\ Ended(w) =>
      /\ w \notin known[ProcessOf[w]]
      /\ stranded[w] \/ (w \notin users /\ \A e \in Episodes : userOf[e] # w)

\* A probe ends, though Zep may never process its episode: that is the very
\* failure it is there to report.
EveryProbeEnds == \A w \in Workers : pc[w] = "poll" ~> Ended(w)
==============================================================================
