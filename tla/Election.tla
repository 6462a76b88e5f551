------------------------------ MODULE Election ------------------------------
(***************************************************************************)
(* The election functions of SyncClient (src/SyncClient.cpp, and the       *)
(* actions of src/v3/AsyncGRPC.cpp): campaign(), proclaim() and resign()   *)
(* of candidates that each have a lease.  A campaign's response names the  *)
(* key of the candidate by its creation revision, which the other two      *)
(* calls give back to etcd.  leader() changes nothing and is left out;     *)
(* module AsyncObserve has the Observer.                                   *)
(*                                                                         *)
(* External: etcd's election service.  The candidate whose key was created *)
(* first leads; a key goes with its lease; a campaign cancelled while it   *)
(* waits resigns.                                                          *)
(***************************************************************************)
EXTENDS Naturals

CONSTANTS
  Candidates,  \* clients that take part, one lease each
  MaxRev       \* bound: revisions of the store

ASSUME MaxRevIsNat == MaxRev \in Nat

VARIABLES
  revision,  \* etcd: the revision of the store
  keys,      \* etcd: the candidates' keys
  leases,    \* etcd: candidates whose lease is alive
  call,      \* the call that each candidate is in
  late,      \* calls given up by the client that etcd may still carry out
  elected,   \* what each candidate got from its campaign: created_index(), or 0
  doubtful   \* history: candidates that gave up a campaign or a resign since
             \* they last campaigned with nothing under way

serverVars == <<revision, keys, leases>>
vars == <<serverVars, call, late, elected, doubtful>>

Revs == 0 .. MaxRev
NoKey == [create |-> 0, mod |-> 0]
Idle == [op |-> "idle", rev |-> 0, ok |-> FALSE]

\* A call: the function and how far it is, the revision sent or received, and
\* whether the answer is a success.
UnderWay == {"campaign", "waiting", "proclaim", "resign"}
Answered == {"campaigned", "proclaimed", "resigned"}
Calls == [op : {"idle"} \cup UnderWay \cup Answered, rev : Revs, ok : BOOLEAN]

TypeOK ==
  /\ revision \in Revs
  /\ keys \in [Candidates -> [create : Revs, mod : Revs]]
  /\ leases \in SUBSET Candidates
  /\ call \in [Candidates -> Calls]
  /\ late \in [Candidates -> [op : {"idle"} \cup UnderWay, rev : Revs, ok : {FALSE}]]
  /\ elected \in [Candidates -> Revs]
  /\ doubtful \in SUBSET Candidates

Init ==
  /\ revision = 0
  /\ keys = [c \in Candidates |-> NoKey]
  /\ leases = Candidates
  /\ call = [c \in Candidates |-> Idle]
  /\ late = [c \in Candidates |-> Idle]
  /\ elected = [c \in Candidates |-> 0]
  /\ doubtful = {}

HasKey(c) == keys[c] # NoKey
Leads(c) == HasKey(c) /\ \A d \in Candidates : HasKey(d) => keys[c].create <= keys[d].create

----------------------------------------------------------------------------
(* The client. *)

Begin(c, op, rev) ==
  /\ call[c] = Idle
  /\ call' = [call EXCEPT ![c] = [op |-> op, rev |-> rev, ok |-> FALSE]]
  /\ UNCHANGED <<serverVars, late>>

\* A candidate may campaign at any time, also after a timeout and while it leads.
\* One that gave up a call no longer counts on what it was elected to before.
Campaign(c) ==
  /\ Begin(c, "campaign", 0)
  /\ elected' = IF c \in doubtful THEN [elected EXCEPT ![c] = 0] ELSE elected
  /\ doubtful' = IF late[c] = Idle THEN doubtful \ {c} ELSE doubtful

\* The leader key of these two is built from the response to the campaign.
Proclaim(c) ==
  elected[c] # 0 /\ Begin(c, "proclaim", elected[c]) /\ UNCHANGED <<elected, doubtful>>

\* Mutant: the revision of the leader key is not sent.
ResignWithoutRevision(c) ==
  elected[c] # 0 /\ Begin(c, "resign", 0) /\ UNCHANGED <<elected, doubtful>>

Resign(c) ==
  elected[c] # 0 /\ Begin(c, "resign", elected[c]) /\ UNCHANGED <<elected, doubtful>>

\* Mutant: the revision of the response header is taken for that of the key.
CampaignResponseIndex(c) ==
  /\ call[c].op = "campaigned"
  /\ elected' = [elected EXCEPT ![c] = IF call[c].ok THEN revision ELSE 0]
  /\ call' = [call EXCEPT ![c] = Idle]
  /\ UNCHANGED <<serverVars, late, doubtful>>

\* Mutant: the response is taken for a success before etcd has sent one.
CampaignResponseEarly(c) ==
  /\ call[c].op \in {"waiting", "campaigned"}
  /\ elected' = [elected EXCEPT ![c] = call[c].rev]
  /\ call' = [call EXCEPT ![c] = Idle]
  /\ UNCHANGED <<serverVars, late, doubtful>>

\* The response to a campaign has the creation revision of the candidate's key.
CampaignResponse(c) ==
  /\ call[c].op = "campaigned"
  /\ elected' = [elected EXCEPT ![c] = IF call[c].ok THEN call[c].rev ELSE 0]
  /\ call' = [call EXCEPT ![c] = Idle]
  /\ UNCHANGED <<serverVars, late, doubtful>>

\* A candidate that is told it no longer leads starts again.
ProclaimResponse(c) ==
  /\ call[c].op = "proclaimed"
  /\ elected' = [elected EXCEPT ![c] = IF call[c].ok THEN elected[c] ELSE 0]
  /\ call' = [call EXCEPT ![c] = Idle]
  /\ UNCHANGED <<serverVars, late, doubtful>>

ResignResponse(c) ==
  /\ call[c].op = "resigned"
  /\ elected' = [elected EXCEPT ![c] = IF call[c].ok THEN 0 ELSE elected[c]]
  /\ call' = [call EXCEPT ![c] = Idle]
  /\ UNCHANGED <<serverVars, late, doubtful>>

\* The timeout passes or the connection fails: the user gets an error, and the
\* destructor of the action cancels the call, which etcd may learn too late.
\* (Bound: one call of a candidate is given up at a time.)
GiveUp(c) ==
  /\ call[c] # Idle /\ late[c] = Idle
  /\ late' = [late EXCEPT ![c] =
                IF call[c].op \in UnderWay THEN call[c] ELSE Idle]
  /\ call' = [call EXCEPT ![c] = Idle]
  /\ doubtful' = IF call[c].op \in {"proclaim", "proclaimed"} THEN doubtful
                 ELSE doubtful \cup {c}
  /\ UNCHANGED <<serverVars, elected>>

----------------------------------------------------------------------------
(* etcd. *)

Write(c, key) == revision' = key.mod /\ keys' = [keys EXCEPT ![c] = key]
\* (The revision that a deletion takes up matters to nobody.)
Delete(c) == keys' = [keys EXCEPT ![c] = NoKey]
MayWrite == revision < MaxRev

\* What etcd does with the request r of c, and the state of the call after it.
After(op, rev, ok) == [op |-> op, rev |-> rev, ok |-> ok]
NoWrite == UNCHANGED <<revision, keys>>

\* A campaign writes the candidate's key, which it may have already, and waits.
CampaignPut(c, r, then) ==
  /\ r.op = "campaign" /\ c \in leases /\ MayWrite
  /\ LET create == IF HasKey(c) THEN keys[c].create ELSE revision + 1
     IN  /\ Write(c, [create |-> create, mod |-> revision + 1])
         /\ then = After("waiting", create, FALSE)

CampaignRefused(c, r, then) ==
  r.op = "campaign" /\ c \notin leases /\ NoWrite /\ then = After("campaigned", 0, FALSE)

CampaignWon(c, r, then) ==
  /\ r.op = "waiting" /\ keys[c].create = r.rev /\ Leads(c)
  /\ NoWrite /\ then = After("campaigned", r.rev, TRUE)

CampaignLost(c, r, then) ==
  /\ r.op = "waiting" /\ keys[c].create # r.rev
  /\ NoWrite /\ then = After("campaigned", 0, FALSE)

ProclaimPut(c, r, then) ==
  /\ r.op = "proclaim" /\ HasKey(c) /\ keys[c].create = r.rev /\ MayWrite
  /\ Write(c, [keys[c] EXCEPT !.mod = revision + 1])
  /\ then = After("proclaimed", r.rev, TRUE)

ProclaimRefused(c, r, then) ==
  /\ r.op = "proclaim" /\ keys[c].create # r.rev
  /\ NoWrite /\ then = After("proclaimed", r.rev, FALSE)

ResignDelete(c, r, then) ==
  /\ r.op = "resign"
  /\ IF keys[c].create = r.rev THEN Delete(c) ELSE UNCHANGED keys
  /\ UNCHANGED revision /\ then = After("resigned", r.rev, TRUE)

Carry(c, r, then) ==
  \/ CampaignPut(c, r, then) \/ CampaignRefused(c, r, then)
  \/ CampaignWon(c, r, then) \/ CampaignLost(c, r, then)
  \/ ProclaimPut(c, r, then) \/ ProclaimRefused(c, r, then)
  \/ ResignDelete(c, r, then)

Answers == {r \in Calls : r.op \in {"waiting"} \cup Answered}

Serve(c) ==
  \E then \in Answers :
    /\ Carry(c, call[c], then)
    /\ call' = [call EXCEPT ![c] = then]
    /\ UNCHANGED <<leases, late, elected, doubtful>>

\* A call given up is carried out after all; its answer reaches nobody.
ServeLate(c) ==
  \E then \in Answers :
    /\ Carry(c, late[c], then)
    /\ late' = [late EXCEPT ![c] = IF then.op = "waiting" THEN then ELSE Idle]
    /\ UNCHANGED <<leases, call, elected, doubtful>>

\* Or its cancellation arrives in time: a campaign that waits resigns.
CancelLate(c) ==
  /\ late[c] # Idle
  /\ IF late[c].op = "waiting" /\ keys[c].create = late[c].rev THEN Delete(c) ELSE UNCHANGED keys
  /\ late' = [late EXCEPT ![c] = Idle]
  /\ UNCHANGED <<revision, leases, call, elected, doubtful>>

\* A lease expires or is revoked, and the key with it.
LeaseGone(c) ==
  /\ c \in leases
  /\ leases' = leases \ {c}
  /\ Delete(c)
  /\ UNCHANGED <<revision, call, late, elected, doubtful>>

----------------------------------------------------------------------------
CandidateStep(c) ==
  \/ CampaignResponse(c) \/ ProclaimResponse(c) \/ ResignResponse(c)
  \/ Campaign(c) \/ Proclaim(c) \/ Resign(c) \/ GiveUp(c)

ServerStep(c) ==
  Serve(c) \/ ServeLate(c) \/ CancelLate(c) \/ LeaseGone(c)

Next == \E c \in Candidates : CandidateStep(c) \/ ServerStep(c)

Spec == Init /\ [][Next]_vars

----------------------------------------------------------------------------
(* Properties. *)

\* A candidate whose campaign succeeded leads the election, under the key that
\* its response named, until it resigns or its lease is gone; unless it has given
\* up a call on the way, for etcd may carry out a resign that timed out, and the
\* cancellation of a campaign that timed out deletes the key of the next one.
ElectedLeads ==
  \A c \in Candidates \ doubtful :
    (elected[c] # 0 /\ c \in leases /\ call[c].op # "resigned") =>
       Leads(c) /\ keys[c].create = elected[c]

\* Who was told that it is elected, is alive, and can be promised anything.
Leaders ==
  {c \in Candidates \ doubtful : elected[c] # 0 /\ c \in leases /\ call[c].op # "resigned"}

Exclusion == INSTANCE MutualExclusion WITH Parties <- Candidates, holders <- Leaders

\* No two candidates take themselves for the leader, whatever their requests meet
\* on the way, and the next one is elected only when the last has resigned, has
\* lost its lease or has given up: the elections implement MutualExclusion.
ImplementsExclusion == Exclusion!ExclusionSpec

\* When resign() has succeeded, the key that the candidate led with is gone.
ResignEndsTenure ==
  \A c \in Candidates : call[c].op = "resigned" => keys[c].create # elected[c]
=============================================================================
