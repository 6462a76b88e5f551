--------------------------- MODULE ElectionProofs ---------------------------
(***************************************************************************)
(* Proofs about Election, for any set of candidates and any number of      *)
(* revisions: a candidate that was told it is elected leads, and a resign  *)
(* that was answered has ended its tenure.                                 *)
(***************************************************************************)
EXTENDS Election, TLAPS

\* A key exists exactly if it was created, at a revision of the store, and no two
\* keys were created at the same.
KeyInv ==
  \A c \in Candidates :
    /\ keys[c].create <= revision
    /\ HasKey(c) => keys[c].create > 0
    /\ \A d \in Candidates \ {c} :
         HasKey(c) /\ HasKey(d) => keys[c].create # keys[d].create

\* What a call knows of the key, and what may be on its way unknown to it.
CallInv ==
  \A c \in Candidates :
    /\ elected[c] <= revision
    /\ call[c].op = "campaigned" => call[c].rev <= revision
    /\ call[c].op \in {"resign", "resigned"} => call[c].rev = elected[c] /\ elected[c] # 0
    /\ call[c].op = "resigned" => call[c].ok = TRUE
    /\ call[c].op \in UnderWay => call[c].ok = FALSE
    /\ c \notin doubtful => late[c].op \in {"idle", "proclaim"}

\* A candidate leads from the moment its campaign is answered.
Tenure(c, rev) == Leads(c) /\ keys[c].create = rev

TenureInv ==
  \A c \in Candidates :
    (c \in leases /\ c \notin doubtful) =>
      /\ elected[c] # 0 /\ call[c].op # "resigned" => Tenure(c, elected[c])
      /\ call[c].op = "campaigned" /\ call[c].ok => Tenure(c, call[c].rev)

IInv == TypeOK /\ KeyInv /\ CallInv /\ TenureInv /\ ResignEndsTenure

----------------------------------------------------------------------------
\* How a step of etcd may change the key of c: it keeps its creation revision, is
\* deleted, or is created at a new revision.
KeyKept(c)    == keys'[c].create = keys[c].create /\ HasKey(c)' = HasKey(c)
KeyDeleted(c) == keys'[c] = NoKey
KeyCreated(c) == keys'[c].create = revision + 1 /\ revision' = revision + 1

StoreStep(c) ==
  /\ revision' \in Revs /\ revision' >= revision
  /\ keys' \in [Candidates -> [create : Revs, mod : Revs]]
  /\ \A d \in Candidates \ {c} : keys'[d] = keys[d]
  /\ KeyKept(c) \/ KeyDeleted(c) \/ KeyCreated(c)

\* The revisions of the store are numbers.
LEMMA RevsAreNat == Revs \subseteq Nat /\ 0 \in Revs
BY MaxRevIsNat DEF Revs

\* Any change of the store leaves the keys numbered below its revision.
LEMMA StoreKeeps ==
  ASSUME TypeOK, KeyInv, NEW c \in Candidates, StoreStep(c)
  PROVE  KeyInv'
<1> SUFFICES /\ \A d \in Candidates :
                  keys'[d].create <= revision' /\ (HasKey(d)' => keys'[d].create > 0)
             /\ \A d, e \in Candidates :
                  d # e /\ HasKey(d)' /\ HasKey(e)' => keys'[d].create # keys'[e].create
  BY DEF KeyInv
<1>1. ASSUME NEW d \in Candidates
      PROVE  keys'[d].create <= revision' /\ (HasKey(d)' => keys'[d].create > 0)
  <2>1. keys[d].create \in Nat /\ revision \in Nat /\ revision' \in Nat
    BY RevsAreNat DEF TypeOK, StoreStep
  <2>2. keys[d].create <= revision /\ (HasKey(d) => keys[d].create > 0)
    BY DEF KeyInv
  <2>3. CASE d # c
    BY <2>1, <2>2, <2>3 DEF StoreStep, HasKey
  <2>4. CASE d = c
    <3>1. CASE KeyKept(c)
      BY <2>1, <2>2, <2>4, <3>1 DEF StoreStep, KeyKept
    <3>2. CASE KeyDeleted(c)
      BY <2>1, <2>4, <3>2 DEF KeyDeleted, HasKey, NoKey
    <3>3. CASE KeyCreated(c)
      BY <2>1, <2>4, <3>3 DEF KeyCreated
    <3> QED BY <3>1, <3>2, <3>3 DEF StoreStep
  <2> QED BY <2>3, <2>4
<1>2. ASSUME NEW d \in Candidates \ {c}, HasKey(c)', HasKey(d)'
      PROVE  keys'[c].create # keys'[d].create
  <2>1. keys'[d] = keys[d] /\ HasKey(d)
    BY <1>2 DEF StoreStep, HasKey
  <2>2. keys[d].create \in Nat /\ revision \in Nat /\ keys[d].create <= revision
    BY RevsAreNat DEF TypeOK, KeyInv
  <2>3. CASE KeyKept(c)
    BY <1>2, <2>1, <2>3 DEF KeyKept, KeyInv
  <2>4. CASE KeyDeleted(c)
    BY <1>2, <2>4 DEF KeyDeleted, HasKey
  <2>5. CASE KeyCreated(c)
    BY <2>1, <2>2, <2>5 DEF KeyCreated
  <2> QED BY <2>3, <2>4, <2>5 DEF StoreStep
<1>3. ASSUME NEW d \in Candidates \ {c}, NEW e \in Candidates \ {c}, d # e, HasKey(d)', HasKey(e)'
      PROVE  keys'[d].create # keys'[e].create
  BY <1>3 DEF StoreStep, HasKey, KeyInv
<1> QED BY <1>1, <1>2, <1>3

\* A tenure outlives every step that keeps the leader's own key.
LEMMA TenureKept ==
  ASSUME TypeOK, KeyInv, NEW c \in Candidates, StoreStep(c),
         NEW d \in Candidates, NEW rev, Tenure(d, rev), d = c => KeyKept(c)
  PROVE  keys'[d].create = rev /\ Leads(d)'
<1>1. keys'[d].create = keys[d].create /\ HasKey(d)'
  BY DEF StoreStep, Tenure, Leads, HasKey, KeyKept
<1>2. ASSUME NEW e \in Candidates, HasKey(e)'
      PROVE  keys[d].create <= keys'[e].create
  <2>1. keys[d].create \in Nat /\ keys[e].create \in Nat /\ revision \in Nat
    BY RevsAreNat DEF TypeOK
  <2>2. HasKey(e) => keys[d].create <= keys[e].create
    BY DEF Tenure, Leads
  <2>3. CASE e # c
    BY <1>2, <2>2, <2>3 DEF StoreStep, HasKey
  <2>4. CASE e = c /\ KeyKept(c)
    BY <1>2, <2>2, <2>4 DEF KeyKept, HasKey
  <2>5. CASE e = c /\ KeyDeleted(c)
    BY <1>2, <2>5 DEF KeyDeleted, HasKey
  <2>6. CASE e = c /\ KeyCreated(c)
    BY <2>1, <2>6 DEF KeyCreated, KeyInv
  <2> QED BY <2>3, <2>4, <2>5, <2>6 DEF StoreStep
<1>3. Leads(d)'
  BY <1>1, <1>2 DEF Leads
<1> QED BY <1>1, <1>3 DEF Tenure

\* What etcd does with one request.
LEMMA CarryEffect ==
  ASSUME TypeOK, KeyInv, NEW c \in Candidates, NEW r \in Calls, NEW then \in Answers,
         Carry(c, r, then)
  PROVE  /\ StoreStep(c)
         /\ r.op \notin {"campaign", "resign"} => KeyKept(c)
         /\ r.op = "campaign" => KeyKept(c) \/ (KeyCreated(c) /\ ~HasKey(c))
         /\ r.op = "resign" => KeyKept(c) \/ KeyDeleted(c)
<1>0. /\ revision \in Revs /\ keys \in [Candidates -> [create : Revs, mod : Revs]]
      /\ revision \in Nat
  BY RevsAreNat DEF TypeOK
<1>n. NoKey \in [create : Revs, mod : Revs]
  BY RevsAreNat DEF NoKey
<1>1. CASE NoWrite
  BY <1>0, <1>1 DEF NoWrite, StoreStep, KeyKept, HasKey
<1>2. CASE CampaignPut(c, r, then)
  <2>1. revision + 1 \in Revs
    BY <1>0, <1>2, MaxRevIsNat DEF CampaignPut, MayWrite, Revs
  <2>2. PICK create \in Revs : /\ create = IF HasKey(c) THEN keys[c].create ELSE revision + 1
                               /\ keys' = [keys EXCEPT ![c] = [create |-> create, mod |-> revision + 1]]
                               /\ revision' = revision + 1
    BY <1>0, <1>2, <2>1 DEF CampaignPut, Write
  <2>3. keys'[c] = [create |-> create, mod |-> revision + 1]
    BY <1>0, <2>2
  <2>4. keys'[c] # NoKey
    BY <1>0, <2>3 DEF NoKey
  <2>5. KeyKept(c) \/ (KeyCreated(c) /\ ~HasKey(c))
    BY <2>2, <2>3, <2>4 DEF KeyKept, KeyCreated, HasKey
  <2>6. StoreStep(c)
    BY <1>0, <2>1, <2>2, <2>5 DEF StoreStep
  <2> QED BY <1>2, <2>5, <2>6 DEF CampaignPut
<1>3. CASE ProclaimPut(c, r, then)
  <2>1. revision + 1 \in Revs
    BY <1>0, <1>3, MaxRevIsNat DEF ProclaimPut, MayWrite, Revs
  <2>2. /\ keys' = [keys EXCEPT ![c] = [keys[c] EXCEPT !.mod = revision + 1]]
        /\ revision' = revision + 1
    BY <1>0, <1>3 DEF ProclaimPut, Write
  <2>3. keys'[c].create = keys[c].create /\ keys'[c].mod = revision + 1
    BY <1>0, <2>2
  <2>4. keys'[c] # NoKey
    BY <1>0, <2>3 DEF NoKey
  <2>5. KeyKept(c)
    BY <1>3, <2>3, <2>4 DEF ProclaimPut, KeyKept, HasKey
  <2>6. StoreStep(c)
    BY <1>0, <2>1, <2>2, <2>5 DEF StoreStep
  <2> QED BY <1>3, <2>5, <2>6 DEF ProclaimPut
<1>4. CASE ResignDelete(c, r, then)
  <2>1. revision' = revision /\ (keys' = keys \/ keys' = [keys EXCEPT ![c] = NoKey])
    BY <1>4 DEF ResignDelete, Delete
  <2>2. KeyKept(c) \/ KeyDeleted(c)
    BY <1>0, <2>1 DEF KeyKept, KeyDeleted, HasKey
  <2>3. StoreStep(c)
    BY <1>0, <1>n, <2>1, <2>2 DEF StoreStep
  <2> QED BY <1>4, <2>2, <2>3 DEF ResignDelete
<1> QED BY <1>1, <1>2, <1>3, <1>4
        DEF Carry, CampaignRefused, CampaignWon, CampaignLost, ProclaimRefused

----------------------------------------------------------------------------
LEMMA CallFacts ==
  /\ Idle \in Calls /\ Idle \in [op : {"idle"} \cup UnderWay, rev : Revs, ok : {FALSE}]
  /\ Idle.op = "idle"
  /\ \A op \in UnderWay, rev \in Revs : After(op, rev, FALSE) \in Calls
BY RevsAreNat DEF Idle, Calls, UnderWay, After

\* Initially nobody calls and no key exists.
LEMMA InitInv == Init => IInv
<1> SUFFICES ASSUME Init PROVE IInv
  OBVIOUS
<1>1. TypeOK
  BY RevsAreNat, CallFacts DEF Init, TypeOK, NoKey
<1>2. KeyInv /\ CallInv
  BY RevsAreNat, CallFacts DEF Init, KeyInv, CallInv, HasKey, NoKey, UnderWay
<1>3. TenureInv /\ ResignEndsTenure
  BY CallFacts DEF Init, TenureInv, ResignEndsTenure
<1> QED BY <1>1, <1>2, <1>3 DEF IInv

\* The steps of the client leave the store alone.
LEMMA BeginKeeps ==
  ASSUME IInv, NEW c \in Candidates, Campaign(c) \/ Proclaim(c) \/ Resign(c)
  PROVE  IInv'
<1>0. TypeOK /\ KeyInv /\ CallInv /\ TenureInv /\ ResignEndsTenure
  BY DEF IInv
<1>1. PICK op \in {"campaign", "proclaim", "resign"}, rev \in Revs :
        /\ call[c] = Idle
        /\ call' = [call EXCEPT ![c] = [op |-> op, rev |-> rev, ok |-> FALSE]]
        /\ UNCHANGED <<revision, keys, leases, late>>
        /\ op = "campaign" =>
             /\ elected' = IF c \in doubtful THEN [elected EXCEPT ![c] = 0] ELSE elected
             /\ doubtful' = IF late[c] = Idle THEN doubtful \ {c} ELSE doubtful
        /\ op # "campaign" =>
             elected[c] # 0 /\ rev = elected[c] /\ UNCHANGED <<elected, doubtful>>
  BY <1>0, RevsAreNat DEF Campaign, Proclaim, Resign, Begin, serverVars, TypeOK
<1>2. call'[c].op = op /\ call'[c].rev = rev /\ \A d \in Candidates \ {c} : call'[d] = call[d]
  BY <1>0, <1>1 DEF TypeOK
<1>3. \A d \in Candidates : elected'[d] = elected[d] \/ (elected'[d] = 0 /\ d = c /\ op = "campaign")
  BY <1>0, <1>1 DEF TypeOK
<1>4. elected' \in [Candidates -> Revs]
  BY <1>0, <1>1, RevsAreNat DEF TypeOK
<1>5. TypeOK'
  BY <1>0, <1>1, <1>4 DEF TypeOK, Calls, UnderWay
<1>6. KeyInv'
  BY <1>0, <1>1 DEF KeyInv, HasKey
<1>7. CallInv'
  <2>1. revision \in Nat
    BY <1>0, RevsAreNat DEF TypeOK
  <2> QED BY <1>0, <1>1, <1>2, <1>3, <2>1, CallFacts DEF CallInv
<1>8. TenureInv' /\ ResignEndsTenure'
  <2>1. \A d \in Candidates : d \notin doubtful' =>
           d \notin doubtful \/ elected'[d] = 0
    BY <1>0, <1>1 DEF TypeOK
  <2>2. TenureInv'
    BY <1>0, <1>1, <1>2, <1>3, <2>1, CallFacts DEF TenureInv, Tenure, Leads, HasKey
  <2>3. ResignEndsTenure'
    BY <1>0, <1>1, <1>2, <1>3, CallFacts DEF ResignEndsTenure
  <2> QED BY <2>2, <2>3
<1> QED BY <1>5, <1>6, <1>7, <1>8 DEF IInv

\* Reading a response keeps the invariant: etcd has already done what it says.
LEMMA ResponseKeeps ==
  ASSUME IInv, NEW c \in Candidates,
         CampaignResponse(c) \/ ProclaimResponse(c) \/ ResignResponse(c)
  PROVE  IInv'
<1>0. TypeOK /\ KeyInv /\ CallInv /\ TenureInv /\ ResignEndsTenure
  BY DEF IInv
<1>1. PICK rev \in Revs :
        /\ elected' = [elected EXCEPT ![c] = rev]
        /\ call' = [call EXCEPT ![c] = Idle]
        /\ UNCHANGED <<revision, keys, leases, late, doubtful>>
        /\ \/ rev = 0
           \/ call[c].op = "campaigned" /\ call[c].ok /\ rev = call[c].rev
           \/ call[c].op = "proclaimed" /\ rev = elected[c]
  <2>1. call[c].rev \in Revs /\ elected[c] \in Revs /\ elected = [elected EXCEPT ![c] = elected[c]]
    BY <1>0 DEF TypeOK, Calls
  <2>2. CASE CampaignResponse(c)
    BY <2>1, <2>2, RevsAreNat DEF CampaignResponse, serverVars
  <2>3. CASE ProclaimResponse(c)
    BY <2>1, <2>3, RevsAreNat DEF ProclaimResponse, serverVars
  <2>4. CASE ResignResponse(c)
    BY <1>0, <2>1, <2>4, RevsAreNat DEF ResignResponse, serverVars, CallInv
  <2> QED BY <2>2, <2>3, <2>4
<1>2. /\ call'[c] = Idle /\ \A d \in Candidates \ {c} : call'[d] = call[d]
      /\ elected'[c] = rev /\ \A d \in Candidates \ {c} : elected'[d] = elected[d]
  BY <1>0, <1>1 DEF TypeOK
<1>3. TypeOK'
  BY <1>0, <1>1, CallFacts DEF TypeOK
<1>4. KeyInv'
  BY <1>0, <1>1 DEF KeyInv, HasKey
<1>5. CallInv'
  <2>1. rev <= revision
    BY <1>0, <1>1, RevsAreNat DEF CallInv, TypeOK
  <2> SUFFICES ASSUME NEW d \in Candidates
               PROVE  /\ elected'[d] <= revision
                      /\ call'[d].op = "campaigned" => call'[d].rev <= revision
                      /\ call'[d].op \in {"resign", "resigned"} =>
                           call'[d].rev = elected'[d] /\ elected'[d] # 0
                      /\ call'[d].op = "resigned" => call'[d].ok = TRUE
                      /\ call'[d].op \in UnderWay => call'[d].ok = FALSE
                      /\ d \notin doubtful => late[d].op \in {"idle", "proclaim"}
    BY <1>1 DEF CallInv
  <2>2. CASE d = c
    BY <1>0, <1>2, <2>1, <2>2, CallFacts DEF CallInv, UnderWay
  <2>3. CASE d # c
    <3>1. call'[d] = call[d] /\ elected'[d] = elected[d]
      BY <1>2, <2>3
    <3> QED BY <1>0, <3>1 DEF CallInv
  <2> QED BY <2>2, <2>3
<1>6. TenureInv' /\ ResignEndsTenure'
  BY <1>0, <1>1, <1>2, CallFacts DEF TenureInv, Tenure, Leads, HasKey, ResignEndsTenure
<1> QED BY <1>3, <1>4, <1>5, <1>6 DEF IInv

\* Giving up a call keeps the invariant: who gave up a campaign or a resign is
\* doubtful, so nothing is claimed of it from then on.
LEMMA GiveUpKeeps ==
  ASSUME IInv, NEW c \in Candidates, GiveUp(c)
  PROVE  IInv'
<1>0. TypeOK /\ KeyInv /\ CallInv /\ TenureInv /\ ResignEndsTenure
  BY DEF IInv
<1>1. /\ call' = [call EXCEPT ![c] = Idle]
      /\ late' = [late EXCEPT ![c] = IF call[c].op \in UnderWay THEN call[c] ELSE Idle]
      /\ UNCHANGED <<revision, keys, leases, elected>>
      /\ doubtful' = IF call[c].op \in {"proclaim", "proclaimed"} THEN doubtful
                     ELSE doubtful \cup {c}
  BY DEF GiveUp, serverVars
<1>2. /\ call'[c] = Idle /\ \A d \in Candidates \ {c} : call'[d] = call[d] /\ late'[d] = late[d]
      /\ late'[c] = IF call[c].op \in UnderWay THEN call[c] ELSE Idle
  BY <1>0, <1>1 DEF TypeOK
<1>3. TypeOK'
  <2>1. call[c].op \in UnderWay => call[c].ok = FALSE
    BY <1>0 DEF CallInv
  <2> QED BY <1>0, <1>1, <2>1, CallFacts DEF TypeOK, Calls
<1>4. KeyInv'
  BY <1>0, <1>1 DEF KeyInv, HasKey
<1>5. CallInv'
  BY <1>0, <1>1, <1>2, CallFacts DEF CallInv, UnderWay
<1>6. TenureInv' /\ ResignEndsTenure'
  BY <1>0, <1>1, <1>2, CallFacts DEF TenureInv, Tenure, Leads, HasKey, ResignEndsTenure
<1> QED BY <1>3, <1>4, <1>5, <1>6 DEF IInv

----------------------------------------------------------------------------
\* etcd carries out the call of a candidate, or one that it has given up.
LEMMA ServeKeeps ==
  ASSUME IInv, NEW c \in Candidates, Serve(c)
  PROVE  IInv'
<1>0. TypeOK /\ KeyInv /\ CallInv /\ TenureInv /\ ResignEndsTenure
  BY DEF IInv
<1>1. PICK then \in Answers :
        /\ Carry(c, call[c], then)
        /\ call' = [call EXCEPT ![c] = then]
        /\ UNCHANGED <<leases, late, elected, doubtful>>
  BY DEF Serve
<1>2. call[c] \in Calls /\ then \in Calls
  BY <1>0 DEF TypeOK, Answers
<1>3. /\ StoreStep(c)
      /\ call[c].op \notin {"campaign", "resign"} => KeyKept(c)
      /\ call[c].op = "campaign" => KeyKept(c) \/ (KeyCreated(c) /\ ~HasKey(c))
      /\ call[c].op = "resign" => KeyKept(c) \/ KeyDeleted(c)
  BY <1>0, <1>1, <1>2, CarryEffect
<1>4. call'[c] = then /\ \A d \in Candidates \ {c} : call'[d] = call[d]
  BY <1>0, <1>1 DEF TypeOK
<1>5. TypeOK'
  BY <1>0, <1>1, <1>2, <1>3 DEF TypeOK, StoreStep
<1>6. KeyInv'
  BY <1>0, <1>3, StoreKeeps
<1>7. /\ \/ call[c].op \in {"campaign", "waiting"} /\ then.op \in {"waiting", "campaigned"}
         \/ call[c].op = "proclaim" /\ then.op = "proclaimed"
         \/ /\ call[c].op = "resign" /\ then.op = "resigned" /\ then.ok = TRUE
            /\ then.rev = call[c].rev /\ keys'[c].create # call[c].rev
      /\ then.op = "waiting" => then.ok = FALSE
      /\ then.op = "campaigned" /\ then.ok => Tenure(c, then.rev) /\ KeyKept(c)
      /\ then.op = "campaigned" => then.rev <= revision
  <2>1. revision \in Nat /\ keys[c].create <= revision
    BY <1>0, RevsAreNat DEF TypeOK, KeyInv
  <2>2. CASE CampaignPut(c, call[c], then)
    <3>1. call[c].op = "campaign" /\ then.op = "waiting" /\ then.ok = FALSE
      BY <2>2 DEF CampaignPut, After
    <3> QED BY <3>1
  <2>3. CASE CampaignRefused(c, call[c], then) \/ CampaignLost(c, call[c], then)
    <3>1. /\ call[c].op \in {"campaign", "waiting"} /\ then.op = "campaigned"
          /\ then.ok = FALSE /\ then.rev = 0
      BY <2>3 DEF CampaignRefused, CampaignLost, After
    <3> QED BY <2>1, <3>1
  <2>4. CASE CampaignWon(c, call[c], then)
    <3>1. /\ call[c].op = "waiting" /\ then.op = "campaigned" /\ then.rev = keys[c].create
          /\ Leads(c)
      BY <2>4 DEF CampaignWon, After
    <3> QED BY <1>3, <2>1, <3>1 DEF Tenure
  <2>5. CASE ProclaimPut(c, call[c], then) \/ ProclaimRefused(c, call[c], then)
    <3>1. call[c].op = "proclaim" /\ then.op = "proclaimed"
      BY <2>5 DEF ProclaimPut, ProclaimRefused, After
    <3> QED BY <3>1
  <2>6. CASE ResignDelete(c, call[c], then)
    <3>1. call[c].rev # 0
      BY <1>0, <2>6 DEF CallInv, ResignDelete
    <3>2. keys'[c].create # call[c].rev
      BY <1>0, <2>6, <3>1 DEF ResignDelete, Delete, NoKey, TypeOK
    <3>3. /\ call[c].op = "resign" /\ then.op = "resigned" /\ then.ok = TRUE
          /\ then.rev = call[c].rev
      BY <2>6 DEF ResignDelete, After
    <3> QED BY <3>2, <3>3
  <2> QED BY <1>1, <2>2, <2>3, <2>4, <2>5, <2>6 DEF Carry
<1>8. CallInv'
  <2>1. revision \in Nat /\ revision' \in Nat /\ revision <= revision'
    BY <1>0, <1>3, RevsAreNat DEF TypeOK, StoreStep
  <2>2. \A d \in Candidates : call[d].rev \in Nat /\ elected[d] \in Nat
    BY <1>0, RevsAreNat DEF TypeOK, Calls
  <2>3. then.rev \in Nat
    BY <1>2, RevsAreNat DEF Calls
  <2> QED BY <1>0, <1>1, <1>4, <1>7, <2>1, <2>2, <2>3 DEF CallInv, UnderWay
<1>9. TenureInv'
  <2> SUFFICES ASSUME NEW d \in Candidates, d \in leases, d \notin doubtful
               PROVE  /\ elected[d] # 0 /\ call'[d].op # "resigned" =>
                           Leads(d)' /\ keys'[d].create = elected[d]
                      /\ call'[d].op = "campaigned" /\ call'[d].ok =>
                           Leads(d)' /\ keys'[d].create = call'[d].rev
    BY <1>1 DEF TenureInv, Tenure
  <2>1. CASE d # c
    BY <1>0, <1>3, <1>4, <2>1, TenureKept DEF TenureInv
  <2>2. CASE d = c
    <3>1. ASSUME elected[c] # 0, then.op # "resigned" PROVE Tenure(c, elected[c]) /\ KeyKept(c)
      <4>1. call[c].op \notin {"resign", "resigned"}
        BY <1>7, <3>1
      <4>2. Tenure(c, elected[c]) /\ HasKey(c)
        BY <1>0, <2>2, <3>1, <4>1 DEF TenureInv, Tenure, Leads
      <4> QED BY <1>3, <4>1, <4>2
    <3> QED BY <1>0, <1>3, <1>4, <1>7, <2>2, <3>1, TenureKept
  <2> QED BY <2>1, <2>2
<1>10. ResignEndsTenure'
  BY <1>0, <1>1, <1>3, <1>4, <1>7 DEF ResignEndsTenure, StoreStep, CallInv
<1> QED BY <1>5, <1>6, <1>8, <1>9, <1>10 DEF IInv

\* What no caller waits for changes the key of a candidate only if it is doubtful.
LEMMA LateKeeps ==
  ASSUME IInv, NEW c \in Candidates,
         StoreStep(c), c \notin doubtful /\ c \in leases' => KeyKept(c),
         KeyKept(c) \/ KeyCreated(c) \/ KeyDeleted(c),
         leases' \subseteq leases,
         late' \in [Candidates -> [op : {"idle"} \cup UnderWay, rev : Revs, ok : {FALSE}]],
         \A d \in Candidates \ {c} : late'[d] = late[d],
         c \notin doubtful => late'[c].op \in {"idle", "proclaim"},
         UNCHANGED <<call, elected, doubtful>>
  PROVE  IInv'
<1>0. TypeOK /\ KeyInv /\ CallInv /\ TenureInv /\ ResignEndsTenure
  BY DEF IInv
<1>1. revision \in Nat /\ revision' \in Nat /\ revision <= revision'
  BY <1>0, RevsAreNat DEF TypeOK, StoreStep
<1>2. \A d \in Candidates : call[d].rev \in Nat /\ elected[d] \in Nat
  BY <1>0, RevsAreNat DEF TypeOK, Calls
<1>3. TypeOK'
  BY <1>0 DEF TypeOK, StoreStep
<1>4. KeyInv'
  BY <1>0, StoreKeeps
<1>5. CallInv'
  BY <1>0, <1>1, <1>2 DEF CallInv
<1>6. TenureInv'
  <2> SUFFICES ASSUME NEW d \in Candidates, d \in leases', d \notin doubtful
               PROVE  /\ elected[d] # 0 /\ call[d].op # "resigned" =>
                           Leads(d)' /\ keys'[d].create = elected[d]
                      /\ call[d].op = "campaigned" /\ call[d].ok =>
                           Leads(d)' /\ keys'[d].create = call[d].rev
    BY DEF TenureInv, Tenure
  <2> QED BY <1>0, TenureKept DEF TenureInv
<1>7. ResignEndsTenure'
  <2> SUFFICES ASSUME NEW d \in Candidates, call[d].op = "resigned"
               PROVE  keys'[d].create # elected[d]
    BY DEF ResignEndsTenure
  <2>1. keys[d].create # elected[d] /\ elected[d] # 0 /\ elected[d] <= revision
    BY <1>0 DEF ResignEndsTenure, CallInv
  <2> QED BY <1>1, <1>2, <2>1 DEF StoreStep, KeyKept, KeyCreated, KeyDeleted, NoKey
<1> QED BY <1>3, <1>4, <1>5, <1>6, <1>7 DEF IInv

\* Late requests, late cancellations and lost leases keep the invariant.
LEMMA ServerKeeps ==
  ASSUME IInv, NEW c \in Candidates, ServeLate(c) \/ CancelLate(c) \/ LeaseGone(c)
  PROVE  IInv'
<1>0. /\ TypeOK /\ KeyInv
      /\ late \in [Candidates -> [op : {"idle"} \cup UnderWay, rev : Revs, ok : {FALSE}]]
      /\ late[c] \in Calls
      /\ c \notin doubtful => late[c].op \in {"idle", "proclaim"}
  BY DEF IInv, TypeOK, CallInv, Calls
<1>1. CASE ServeLate(c)
  <2>1. PICK then \in Answers :
          /\ Carry(c, late[c], then)
          /\ late' = [late EXCEPT ![c] = IF then.op = "waiting" THEN then ELSE Idle]
          /\ UNCHANGED <<leases, call, elected, doubtful>>
    BY <1>1 DEF ServeLate
  <2>2. /\ StoreStep(c)
        /\ late[c].op \notin {"campaign", "resign"} => KeyKept(c)
    BY <1>0, <2>1, CarryEffect
  <2>3. then.op = "waiting" => then \in Calls /\ then.ok = FALSE /\ late[c].op = "campaign"
    BY <2>1 DEF Carry, CampaignPut, CampaignRefused, CampaignWon, CampaignLost,
                ProclaimPut, ProclaimRefused, ResignDelete, After, Answers
  <2>4. late' \in [Candidates -> [op : {"idle"} \cup UnderWay, rev : Revs, ok : {FALSE}]]
    <3>1. then.op = "waiting" =>
            then \in [op : {"idle"} \cup UnderWay, rev : Revs, ok : {FALSE}]
      BY <2>3 DEF Calls, UnderWay
    <3> QED BY <1>0, <2>1, <3>1, CallFacts
  <2>5. c \notin doubtful => late'[c].op \in {"idle", "proclaim"}
    BY <1>0, <2>1, <2>3, CallFacts
  <2>6. \A d \in Candidates \ {c} : late'[d] = late[d]
    BY <1>0, <2>1
  <2> QED BY <1>0, <2>1, <2>2, <2>4, <2>5, <2>6, LateKeeps DEF StoreStep
<1>2. CASE CancelLate(c) \/ LeaseGone(c)
  <2>1. /\ revision' = revision /\ leases' \subseteq leases
        /\ keys' = keys \/ keys' = [keys EXCEPT ![c] = NoKey]
        /\ UNCHANGED <<call, elected, doubtful>>
    BY <1>2 DEF CancelLate, LeaseGone, Delete
  <2>2. /\ late' \in [Candidates -> [op : {"idle"} \cup UnderWay, rev : Revs, ok : {FALSE}]]
        /\ \A d \in Candidates \ {c} : late'[d] = late[d]
        /\ c \notin doubtful => late'[c].op \in {"idle", "proclaim"}
    BY <1>0, <1>2, CallFacts DEF CancelLate, LeaseGone
  <2>3. KeyKept(c) \/ KeyDeleted(c)
    BY <1>0, <2>1 DEF TypeOK, KeyKept, KeyDeleted, HasKey
  <2>4. StoreStep(c)
    <3>1. revision \in Revs /\ revision \in Nat /\ NoKey \in [create : Revs, mod : Revs]
      BY <1>0, RevsAreNat DEF TypeOK, NoKey
    <3> QED BY <1>0, <2>1, <2>3, <3>1 DEF StoreStep, TypeOK
  <2>5. c \notin doubtful /\ c \in leases' => KeyKept(c)
    <3>1. CASE CancelLate(c)
      BY <1>0, <3>1 DEF CancelLate, KeyKept, HasKey
    <3>2. CASE LeaseGone(c)
      BY <3>2 DEF LeaseGone
    <3> QED BY <1>2, <3>1, <3>2
  <2> QED BY <2>1, <2>2, <2>3, <2>4, <2>5, LateKeeps
<1> QED BY <1>1, <1>2

----------------------------------------------------------------------------
LEMMA StepInv == IInv /\ [Next]_vars => IInv'
<1> SUFFICES ASSUME IInv, [Next]_vars PROVE IInv'
  OBVIOUS
<1>1. CASE UNCHANGED vars
  BY <1>1 DEF IInv, TypeOK, KeyInv, CallInv, TenureInv, Tenure, Leads, HasKey,
              ResignEndsTenure, vars, serverVars
<1>2. ASSUME NEW c \in Candidates, CandidateStep(c) PROVE IInv'
  BY <1>2, BeginKeeps, ResponseKeeps, GiveUpKeeps DEF CandidateStep
<1>3. ASSUME NEW c \in Candidates, ServerStep(c) PROVE IInv'
  BY <1>3, ServeKeeps, ServerKeeps DEF ServerStep
<1> QED BY <1>1, <1>2, <1>3 DEF Next

\* Every reachable state of the elections satisfies the invariant.
LEMMA Invariance == Spec => []IInv
BY InitInv, StepInv, PTL DEF Spec

\* Every variable keeps its type.
THEOREM TypeCorrect == Spec => []TypeOK
<1>1. IInv => TypeOK
  BY DEF IInv
<1> QED BY <1>1, Invariance, PTL

\* For any number of candidates, one whose campaign() succeeded leads the election
\* under the creation revision that its response named, unless it gave up a call.
THEOREM ElectedLeadsHolds == Spec => []ElectedLeads
<1>1. IInv => ElectedLeads
  BY DEF IInv, TypeOK, TenureInv, Tenure, ElectedLeads
<1> QED BY <1>1, Invariance, PTL

\* For any number of candidates, a resign() that succeeded has removed the key that
\* the candidate led with.
THEOREM ResignEndsTenureHolds == Spec => []ResignEndsTenure
<1>1. IInv => ResignEndsTenure
  BY DEF IInv
<1> QED BY <1>1, Invariance, PTL

----------------------------------------------------------------------------
(* The refinement. *)

\* A step changes the tenure of one candidate, if any.
LEMMA LeadersMove ==
  ASSUME TypeOK, [Next]_vars, Leaders' # Leaders
  PROVE  \E c \in Candidates : \A d \in Candidates \ {c} : d \in Leaders' <=> d \in Leaders
<1>1. CASE UNCHANGED vars
  BY <1>1 DEF Leaders, vars, serverVars
<1>2. ASSUME NEW c \in Candidates, CandidateStep(c) \/ ServerStep(c)
      PROVE  \A d \in Candidates \ {c} : d \in Leaders' <=> d \in Leaders
  <2>1. \A d \in Candidates \ {c} : /\ elected'[d] = elected[d] /\ call'[d] = call[d]
                                    /\ d \in leases' <=> d \in leases
                                    /\ d \in doubtful' <=> d \in doubtful
    <3>1. CASE CandidateStep(c)
      BY <3>1 DEF CandidateStep, TypeOK, Campaign, Proclaim, Resign, Begin, GiveUp,
                  CampaignResponse, ProclaimResponse, ResignResponse, serverVars
    <3>2. CASE ServerStep(c)
      BY <3>2 DEF ServerStep, TypeOK, Serve, ServeLate, CancelLate, LeaseGone
    <3> QED BY <1>2, <3>1, <3>2
  <2> QED BY <2>1 DEF Leaders
<1> QED BY <1>1, <1>2 DEF Next

\* For any number of candidates, campaign() and resign() implement MutualExclusion:
\* a candidate is told that it is elected only when no other takes itself for the
\* leader.
THEOREM ImplementsExclusionHolds == Spec => ImplementsExclusion
<1>1. Init => Exclusion!NobodyHolds
  BY DEF Init, Leaders, Exclusion!NobodyHolds
<1>2. IInv /\ IInv' /\ [Next]_vars => [Exclusion!ExclusionNext]_Leaders
  <2> SUFFICES ASSUME IInv, IInv', [Next]_vars, Leaders' # Leaders
               PROVE  Exclusion!ExclusionNext
    OBVIOUS
  <2>1. PICK c \in Candidates : \A d \in Candidates \ {c} : d \in Leaders' <=> d \in Leaders
    BY LeadersMove DEF IInv
  <2>2. Leaders \subseteq Candidates /\ Leaders' \subseteq Candidates
    BY DEF Leaders
  <2>3. CASE c \in Leaders'
    <3>1. \A d \in Leaders' : Leads(d)' /\ keys'[d].create \in Nat
      BY <2>2, RevsAreNat DEF IInv, TypeOK, TenureInv, Tenure, Leaders
    <3>2. \A d \in Leaders' : d = c
      <4> SUFFICES ASSUME NEW d \in Leaders' PROVE d = c
        OBVIOUS
      <4>1. /\ keys'[c].create <= keys'[d].create /\ keys'[d].create <= keys'[c].create
            /\ HasKey(c)' /\ HasKey(d)'
        BY <2>2, <2>3, <3>1 DEF Leads
      <4>2. keys'[c].create = keys'[d].create
        BY <2>3, <3>1, <4>1
      <4> QED BY <2>2, <2>3, <4>1, <4>2 DEF IInv, KeyInv
    <3>3. Leaders' = {c} /\ Leaders = {}
      BY <2>1, <2>2, <2>3, <3>2
    <3> QED BY <3>3 DEF Exclusion!ExclusionNext, Exclusion!Acquire
  <2>4. CASE c \notin Leaders'
    <3>1. c \in Leaders /\ Leaders' = Leaders \ {c}
      BY <2>1, <2>2, <2>4
    <3> QED BY <3>1 DEF Exclusion!ExclusionNext, Exclusion!Release
  <2> QED BY <2>3, <2>4
<1> QED BY <1>1, <1>2, Invariance, PTL DEF Spec, ImplementsExclusion, Exclusion!ExclusionSpec
=============================================================================
