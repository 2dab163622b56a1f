--------------------------- MODULE RgwAdminProofs ---------------------------
(***************************************************************************)
(* Safety of RgwAdmin for any number of exports, endpoints and failures.   *)
(* The invariant says what an export holds at each stage, in terms of the  *)
(* admin-ops user and the pools; both only grow, so what one export knows  *)
(* survives the steps of the others.                                       *)
(***************************************************************************)
EXTENDS RgwAdmin, TLAPS

Stages == {"start", "create", "query", "caps", "dial", "identify", "pools",
           "print", "done", "failed"}
Dial == [base : {"", "http", "https"}, verify : {"", "nothing", "given", "system"}]
Memory == [flags : RgwFlags, key : Nat \cup {NoKey}, info : BOOLEAN, dial : Dial,
           published : BOOLEAN, cert : BOOLEAN]
User == [exists : BOOLEAN, key : Nat, caps : SUBSET (BaseCaps \cup {"info"})]

\* The endpoint in the flags answers, and belongs to the provider.
Answers(f) == EndpointDial(Gateway[f.host].server, f.skipTls, f.cert) # Unreachable
Own(f) == Gateway[f.host].fsid = Fsid /\ Gateway[f.host].realm

\* What holds of an export at a stage, with memory m, for a user u, pools p and
\* the knowledge k of the capability "info".
StageOK(u, p, k, stage, m) ==
    /\ stage \in {"start", "create", "query", "failed"} => m = Blank(m.flags)
    /\ stage = "query" => u.exists
    /\ stage = "caps" => m.key # NoKey
    /\ m.key # NoKey => u.exists /\ u.key = m.key
    /\ stage \notin {"start", "create", "query", "caps"} /\ m.key # NoKey /\ k =>
          "info" \in u.caps
    /\ m.published => stage \in {"print", "done"} /\ m.cert = m.flags.cert
    /\ stage \in {"identify", "pools"} \/ m.published => Answers(m.flags)
    /\ (stage = "pools" \/ m.published) /\ m.info => Own(m.flags)
    /\ m.published /\ m.flags.prefix # "default" =>
          PoolsOf(m.flags.prefix) \subseteq p

UserOK(u) == IF u.exists THEN BaseCaps \subseteq u.caps ELSE u.caps = {}

IInv ==
    /\ TypeOK
    /\ UserOK(user)
    /\ \A r \in Run : StageOK(user, pools, infoKnown, pc[r], mem[r])

Grows ==
    /\ user.exists => user'.exists /\ user'.key = user.key
    /\ user.caps \subseteq user'.caps /\ pools \subseteq pools'
    /\ infoKnown' = infoKnown

-----------------------------------------------------------------------------
LEMMA StageKept ==
    ASSUME NEW u, NEW v, NEW p, NEW q, NEW k, NEW stage, NEW m,
           StageOK(u, p, k, stage, m), u.exists => v.exists /\ v.key = u.key,
           u.caps \subseteq v.caps, p \subseteq q
    PROVE  StageOK(v, q, k, stage, m)
BY DEF StageOK

LEMMA BlankType == \A f \in RgwFlags : Blank(f) \in Memory /\ Blank(f).flags = f
BY DEF Blank, Memory, Dial, Unreachable

LEMMA BlankOK ==
    ASSUME NEW f \in RgwFlags, NEW stage \in {"start", "create", "failed", "done"}
    PROVE  StageOK(user, pools, infoKnown, stage, Blank(f))
BY DEF StageOK, Blank

LEMMA TypeFacts ==
    ASSUME TypeOK
    PROVE  /\ user \in User /\ pc \in [Run -> Stages] /\ mem \in [Run -> Memory]
           /\ \A r \in Run : mem[r] \in Memory /\ mem[r].flags \in RgwFlags
                             /\ mem[r].key \in Nat \cup {NoKey}
BY DEF TypeOK, User, Stages, Memory, Dial

\* A step of one export, with what it does to the provider.
LEMMA GotoInv ==
    ASSUME IInv, Grows, NEW r \in Run, NEW stage \in Stages, NEW m \in Memory,
           Goto(r, stage, m), StageOK(user', pools', infoKnown', stage, m),
           user' \in User, UserOK(user'),
           UNCHANGED <<pools, up>>, faults' \in 0 .. MaxFaults
    PROVE  IInv'
<1>1. TypeOK'
  <2>1. pc' \in [Run -> Stages] /\ mem' \in [Run -> Memory]
    BY TypeFacts DEF IInv, Goto
  <2> QED
    BY <2>1 DEF IInv, TypeOK, Grows, User, Stages, Memory, Dial
<1>2. ASSUME NEW s \in Run PROVE StageOK(user', pools', infoKnown', pc'[s], mem'[s])
  <2>1. CASE s = r
    BY <2>1, TypeFacts DEF IInv, Goto
  <2>2. CASE s # r
    <3>1. pc'[s] = pc[s] /\ mem'[s] = mem[s]
      BY <2>2, TypeFacts DEF IInv, Goto
    <3>2. StageOK(user, pools, infoKnown, pc[s], mem[s]) /\ infoKnown' = infoKnown
      BY DEF IInv, Grows
    <3> QED
      BY <3>1, <3>2, StageKept DEF Grows
  <2> QED
    BY <2>1, <2>2
<1> QED
  BY <1>1, <1>2 DEF IInv

\* The same of a step that leaves the provider alone.
LEMMA QuietInv ==
    ASSUME IInv, NEW r \in Run, NEW stage \in Stages, NEW m \in Memory,
           Goto(r, stage, m), StageOK(user, pools, infoKnown, stage, m),
           UNCHANGED provider, faults' \in 0 .. MaxFaults
    PROVE  IInv'
<1>1. UNCHANGED <<user, infoKnown, pools, up>> /\ user \in User
  BY TypeFacts DEF provider, IInv
<1>2. Grows
  BY <1>1 DEF Grows
<1> QED
  BY <1>1, <1>2, GotoInv DEF IInv

LEMMA FaultType == ASSUME TypeOK, Fault PROVE faults' \in 0 .. MaxFaults
<1>1. faults \in 0 .. MaxFaults /\ MaxFaults \in Nat
  BY RgwAssumption DEF TypeOK
<1> QED
  BY <1>1 DEF Fault

LEMMA FailInv ==
    ASSUME IInv, NEW r \in Run, Fail(r), UNCHANGED provider, faults' \in 0 .. MaxFaults
    PROVE  IInv'
<1>1. mem[r].flags \in RgwFlags /\ "failed" \in Stages
  BY TypeFacts DEF IInv, Stages
<1> QED
  BY <1>1, BlankType, BlankOK, QuietInv DEF Fail

\* radosgw-admin fails: no keys, from any stage before the dial.
LEMMA WithoutUserInv ==
    ASSUME IInv, NEW r \in Run, WithoutUser(r), pc[r] \in {"create", "query", "caps"},
           UNCHANGED provider, faults' \in 0 .. MaxFaults
    PROVE  IInv'
<1> DEFINE m == [mem[r] EXCEPT !.key = NoKey, !.info = FALSE]
<1>1. /\ mem[r] \in Memory /\ "dial" \in Stages
      /\ StageOK(user, pools, infoKnown, pc[r], mem[r])
  BY TypeFacts DEF IInv, Stages
<1>2. m \in Memory /\ m.key = NoKey /\ ~m.info /\ m.published = mem[r].published
  BY <1>1 DEF Memory
<1>3. ~m.published
  BY <1>1, <1>2 DEF StageOK
<1>4. Goto(r, "dial", m)
  BY DEF WithoutUser
<1> HIDE DEF m
<1>5. StageOK(user, pools, infoKnown, "dial", m)
  BY <1>2, <1>3 DEF StageOK
<1> QED
  BY <1>1, <1>2, <1>4, <1>5, QuietInv

-----------------------------------------------------------------------------
LEMMA InitInv == Init => IInv
<1> SUFFICES ASSUME Init PROVE IInv
  OBVIOUS
<1>1. PICK l \in Lines : mem = [r \in Run |-> Blank(l[r])]
  BY DEF Init
<1>2. \A r \in Run : l[r] \in RgwFlags
  BY RgwAssumption
<1>3. user \in User /\ UserOK(user)
  <2>1. CASE user = NoUser
    BY <2>1 DEF NoUser, User, UserOK
  <2>2. CASE user = [exists |-> TRUE, key |-> 1, caps |-> BaseCaps]
    BY <2>2 DEF User, UserOK
  <2> QED
    BY <2>1, <2>2 DEF Init
<1>4. mem \in [Run -> Memory] /\ pc \in [Run -> Stages]
  BY <1>1, <1>2, BlankType DEF Init, Stages
<1>5. TypeOK
  <2>1. infoKnown \in BOOLEAN /\ pools \subseteq UNION {PoolsOf(p) : p \in Prefixes} /\ up \subseteq Host
    BY DEF Init
  <2>2. faults \in 0 .. MaxFaults
    BY RgwAssumption DEF Init
  <2> QED
    BY <1>3, <1>4, <2>1, <2>2 DEF TypeOK, User, Memory, Dial, Stages
<1>6. \A r \in Run : StageOK(user, pools, infoKnown, pc[r], mem[r])
  BY <1>1, <1>2, BlankOK DEF Init
<1> QED
  BY <1>3, <1>5, <1>6 DEF IInv

LEMMA StartInv == ASSUME IInv, NEW r \in Run, Start(r) PROVE IInv'
<1>1. /\ mem[r] \in Memory /\ mem[r].flags \in RgwFlags
      /\ StageOK(user, pools, infoKnown, "start", mem[r])
  BY TypeFacts DEF IInv, Start
<1>2. mem[r] = Blank(mem[r].flags)
  BY <1>1 DEF StageOK
<1>3. PICK stage \in {"done", "create"} : Goto(r, stage, mem[r])
  BY DEF Start
<1>4. stage \in Stages /\ StageOK(user, pools, infoKnown, stage, mem[r])
  BY <1>1, <1>2, BlankOK DEF Stages
<1> QED
  BY <1>1, <1>3, <1>4, QuietInv DEF Start, IInv, TypeOK

\* The new user of an export that finds none.
LEMMA NewUserInv ==
    ASSUME IInv, NEW r \in Run, pc[r] = "create", ~user.exists,
           user' = [exists |-> TRUE, key |-> user.key + 1, caps |-> BaseCaps],
           Goto(r, "caps", [mem[r] EXCEPT !.key = user.key + 1]),
           UNCHANGED <<infoKnown, pools, up, faults>>
    PROVE  IInv'
<1> DEFINE m == [mem[r] EXCEPT !.key = user.key + 1]
<1>1. /\ mem[r] \in Memory /\ mem[r].flags \in RgwFlags /\ user \in User
      /\ mem[r] = Blank(mem[r].flags)
  BY TypeFacts DEF IInv, StageOK
<1>2. user.key + 1 \in Nat /\ user.key + 1 # NoKey
  BY <1>1, RgwAssumption DEF User
<1>3. m \in Memory /\ m.key = user.key + 1 /\ ~m.published /\ ~m.info
  BY <1>1, <1>2 DEF Memory, Blank
<1> HIDE DEF m
<1>4. user'.exists /\ user'.key = user.key + 1 /\ user'.caps = BaseCaps
  OBVIOUS
<1>5. StageOK(user', pools', infoKnown', "caps", m) /\ "caps" \in Stages
  BY <1>2, <1>3, <1>4 DEF StageOK, Stages
<1>6. Grows
  BY <1>4 DEF Grows, IInv, UserOK
<1>7. user' \in User /\ UserOK(user')
  BY <1>2, <1>4 DEF User, UserOK
<1>8. faults' \in 0 .. MaxFaults
  BY DEF IInv, TypeOK
<1> QED
  BY <1>3, <1>5, <1>6, <1>7, <1>8, GotoInv DEF m

LEMMA CreateUserInv == ASSUME IInv, NEW r \in Run, CreateUser(r) PROVE IInv'
<1>1. pc[r] = "create" /\ UNCHANGED <<infoKnown, pools, up>> /\ faults \in 0 .. MaxFaults
  BY DEF CreateUser, IInv, TypeOK
<1>2. CASE /\ ~user.exists
           /\ user' = [exists |-> TRUE, key |-> user.key + 1, caps |-> BaseCaps]
           /\ Goto(r, "caps", [mem[r] EXCEPT !.key = user.key + 1])
           /\ UNCHANGED faults
  BY <1>1, <1>2, NewUserInv
<1>3. CASE user.exists /\ Goto(r, "query", mem[r]) /\ UNCHANGED <<user, faults>>
  <2>1. /\ mem[r] \in Memory /\ "query" \in Stages
        /\ StageOK(user, pools, infoKnown, "create", mem[r])
    BY <1>1, TypeFacts DEF IInv, Stages
  <2>2. StageOK(user, pools, infoKnown, "query", mem[r])
    BY <1>3, <2>1 DEF StageOK
  <2> QED
    BY <1>1, <1>3, <2>1, <2>2, QuietInv DEF provider
<1>4. CASE /\ Fault \/ UNCHANGED faults
           /\ WithoutUser(r) /\ UNCHANGED user
  <2>1. faults' \in 0 .. MaxFaults
    BY <1>1, <1>4, FaultType DEF IInv
  <2> QED
    BY <1>1, <1>4, <2>1, WithoutUserInv DEF provider
<1> QED
  BY <1>1, <1>2, <1>3, <1>4 DEF CreateUser

LEMMA QueryUserInv == ASSUME IInv, NEW r \in Run, QueryUser(r) PROVE IInv'
<1>1. pc[r] = "query" /\ UNCHANGED provider /\ faults \in 0 .. MaxFaults
  BY DEF QueryUser, IInv, TypeOK
<1>2. CASE Goto(r, "caps", [mem[r] EXCEPT !.key = user.key]) /\ UNCHANGED faults
  <2> DEFINE m == [mem[r] EXCEPT !.key = user.key]
  <2>1. /\ mem[r] \in Memory /\ mem[r].flags \in RgwFlags /\ user \in User
        /\ mem[r] = Blank(mem[r].flags) /\ user.exists
    BY <1>1, TypeFacts DEF IInv, StageOK
  <2>2. /\ m \in Memory /\ m.key = user.key /\ ~m.published /\ ~m.info
        /\ m.key # NoKey
    BY <2>1, RgwAssumption DEF Memory, User, Blank
  <2> HIDE DEF m
  <2>3. StageOK(user, pools, infoKnown, "caps", m) /\ "caps" \in Stages
    BY <2>1, <2>2 DEF StageOK, Stages
  <2> QED
    BY <1>1, <1>2, <2>2, <2>3, QuietInv DEF m
<1>3. CASE Fault /\ WithoutUser(r)
  BY <1>1, <1>3, FaultType, WithoutUserInv DEF IInv
<1> QED
  BY <1>2, <1>3 DEF QueryUser

LEMMA AddInfoCapInv == ASSUME IInv, NEW r \in Run, AddInfoCap(r) PROVE IInv'
<1>1. /\ pc[r] = "caps" /\ UNCHANGED <<infoKnown, pools, up>>
      /\ faults \in 0 .. MaxFaults /\ user \in User
  BY TypeFacts DEF AddInfoCap, IInv, TypeOK
<1>2. CASE /\ user' = IF infoKnown THEN [user EXCEPT !.caps = @ \cup {"info"}] ELSE user
           /\ Goto(r, "dial", [mem[r] EXCEPT !.info = infoKnown])
           /\ UNCHANGED faults
  <2> DEFINE m == [mem[r] EXCEPT !.info = infoKnown]
  <2>1. mem[r] \in Memory /\ StageOK(user, pools, infoKnown, "caps", mem[r])
    BY <1>1, TypeFacts DEF IInv
  <2>2. /\ m \in Memory /\ m.key = mem[r].key /\ m.published = mem[r].published
        /\ m.flags = mem[r].flags
    BY <2>1 DEF Memory, IInv, TypeOK
  <2> HIDE DEF m
  <2>3. /\ user'.exists = user.exists /\ user'.key = user.key
        /\ user.caps \subseteq user'.caps /\ user' \in User
        /\ infoKnown => "info" \in user'.caps
    BY <1>1, <1>2 DEF User
  <2>4. user.exists /\ ~m.published
    BY <2>1, <2>2 DEF StageOK
  <2>5. StageOK(user', pools', infoKnown', "dial", m) /\ "dial" \in Stages
    BY <1>1, <2>1, <2>2, <2>3, <2>4 DEF StageOK, Stages
  <2>6. UserOK(user')
    BY <2>3, <2>4 DEF UserOK, IInv
  <2>7. Grows
    BY <1>1, <2>3 DEF Grows
  <2>8. Goto(r, "dial", m)
    BY <1>2 DEF m
  <2> QED
    BY <1>1, <1>2, <2>2, <2>3, <2>5, <2>6, <2>7, <2>8, GotoInv
<1>3. CASE Fault /\ WithoutUser(r) /\ UNCHANGED user
  <2>1. UNCHANGED provider
    BY <1>1, <1>3 DEF provider
  <2> QED
    BY <1>1, <1>3, <2>1, FaultType, WithoutUserInv DEF IInv
<1> QED
  BY <1>2, <1>3 DEF AddInfoCap

-----------------------------------------------------------------------------
\* The end of an export: what is published is known to be fit for it.
LEMMA FinishInv ==
    ASSUME IInv, NEW r \in Run, pc[r] \in {"dial", "identify", "pools"},
           NEW m \in Memory, NEW published \in BOOLEAN, Finish(r, m, published),
           m.flags = mem[r].flags, m.key = mem[r].key, m.info = mem[r].info,
           published => pc[r] = "pools",
           published /\ m.flags.prefix # "default" =>
               PoolsOf(m.flags.prefix) \subseteq pools,
           UNCHANGED provider, faults' \in 0 .. MaxFaults
    PROVE  IInv'
<1> DEFINE n == [m EXCEPT !.published = published, !.cert = TlsCert(m.flags)]
<1>1. StageOK(user, pools, infoKnown, pc[r], mem[r]) /\ m.flags \in RgwFlags
  BY TypeFacts DEF IInv
<1>2. m.flags.cert \in BOOLEAN
  BY <1>1 DEF RgwFlags
<1>3. /\ n \in Memory /\ n.flags = m.flags /\ n.key = m.key /\ n.info = m.info
      /\ n.published = published /\ n.cert = m.flags.cert
  BY <1>2 DEF Memory, TlsCert
<1>4. Goto(r, "print", n)
  BY DEF Finish
<1> HIDE DEF n
<1>5. n.key # NoKey => user.exists /\ user.key = n.key
  BY <1>1, <1>3 DEF StageOK
<1>6. n.key # NoKey /\ infoKnown => "info" \in user.caps
  BY <1>1, <1>3 DEF StageOK
<1>7. n.published => Answers(n.flags)
  BY <1>1, <1>3 DEF StageOK
<1>8. n.published /\ n.info => Own(n.flags)
  BY <1>1, <1>3 DEF StageOK
<1>9. StageOK(user, pools, infoKnown, "print", n) /\ "print" \in Stages
  BY <1>3, <1>5, <1>6, <1>7, <1>8 DEF StageOK, Stages
<1> QED
  BY <1>3, <1>4, <1>9, QuietInv

LEMMA DialType ==
    ASSUME NEW server, NEW skip \in BOOLEAN, NEW cert \in BOOLEAN
    PROVE  EndpointDial(server, skip, cert) \in Dial
BY DEF EndpointDial, Dial, Verify, Unreachable

LEMMA DialEndpointInv == ASSUME IInv, NEW r \in Run, DialEndpoint(r) PROVE IInv'
<1> DEFINE f == mem[r].flags
           dial == IF f.host \in up
                   THEN EndpointDial(Gateway[f.host].server, f.skipTls, f.cert)
                   ELSE Unreachable
           m == [mem[r] EXCEPT !.dial = dial]
<1>1. /\ pc[r] = "dial" /\ UNCHANGED provider /\ faults' \in 0 .. MaxFaults
      /\ StageOK(user, pools, infoKnown, "dial", mem[r])
      /\ mem[r] \in Memory /\ f \in RgwFlags
  BY TypeFacts DEF DialEndpoint, IInv, TypeOK
<1>2. dial \in Dial
  <2>1. f.skipTls \in BOOLEAN /\ f.cert \in BOOLEAN /\ Unreachable \in Dial
    BY <1>1 DEF RgwFlags, Dial, Unreachable
  <2> QED
    BY <2>1, DialType
<1>3. dial # Unreachable => Answers(f)
  BY DEF Answers
<1>4. \/ Fail(r)
      \/ dial = Unreachable /\ Finish(r, m, FALSE)
      \/ dial # Unreachable /\ Goto(r, IF m.info THEN "identify" ELSE "pools", m)
  BY DEF DialEndpoint
<1>5. /\ m \in Memory /\ m.flags = f /\ m.key = mem[r].key /\ m.info = mem[r].info
      /\ m.published = mem[r].published /\ m.info \in BOOLEAN
  <2> HIDE DEF dial
  <2> QED
    BY <1>1, <1>2 DEF Memory
<1> HIDE DEF m, dial
<1>6. CASE dial # Unreachable /\ Goto(r, IF m.info THEN "identify" ELSE "pools", m)
  <2>1. PICK stage \in {"identify", "pools"} :
            Goto(r, stage, m) /\ (m.info => stage = "identify")
    BY <1>6
  <2>2. ~m.published
    BY <1>1, <1>5 DEF StageOK
  <2>3. StageOK(user, pools, infoKnown, stage, m) /\ stage \in Stages
    BY <1>1, <1>3, <1>5, <1>6, <2>1, <2>2 DEF StageOK, Stages
  <2> QED
    BY <1>1, <1>5, <2>1, <2>3, QuietInv
<1> QED
  BY <1>1, <1>4, <1>5, <1>6, FailInv, FinishInv

LEMMA IdentifyClusterInv == ASSUME IInv, NEW r \in Run, IdentifyCluster(r) PROVE IInv'
<1> DEFINE f == mem[r].flags
           answer == Answer(Gateway[f.host], Sign(f, mem[r].key))
<1>1. /\ pc[r] = "identify" /\ UNCHANGED provider
      /\ StageOK(user, pools, infoKnown, "identify", mem[r])
      /\ mem[r] \in Memory
  BY TypeFacts DEF IdentifyCluster, IInv
<1>2. faults' \in 0 .. MaxFaults
  BY FaultType DEF IdentifyCluster, IInv, TypeOK
<1>3. \/ answer = Fsid /\ Goto(r, "pools", mem[r])
      \/ Finish(r, mem[r], FALSE)
      \/ Fail(r)
  BY DEF IdentifyCluster
<1>4. answer = Fsid => Own(f)
  BY RgwAssumption DEF Answer, Own
<1> HIDE DEF answer
<1>5. CASE answer = Fsid /\ Goto(r, "pools", mem[r])
  <2>1. StageOK(user, pools, infoKnown, "pools", mem[r]) /\ "pools" \in Stages
    BY <1>1, <1>4, <1>5 DEF StageOK, Stages
  <2> QED
    BY <1>1, <1>2, <1>5, <2>1, QuietInv
<1> QED
  BY <1>1, <1>2, <1>3, <1>5, FailInv, FinishInv

LEMMA CheckPoolsInv == ASSUME IInv, NEW r \in Run, CheckPools(r) PROVE IInv'
<1> DEFINE published == mem[r].flags.prefix # "default" =>
                            PoolsOf(mem[r].flags.prefix) \subseteq pools
<1>1. /\ pc[r] = "pools" /\ UNCHANGED provider /\ faults' \in 0 .. MaxFaults
      /\ mem[r] \in Memory /\ Finish(r, mem[r], published)
  BY TypeFacts DEF CheckPools, IInv, TypeOK
<1>2. published \in BOOLEAN
  OBVIOUS
<1>3. published /\ mem[r].flags.prefix # "default" =>
          PoolsOf(mem[r].flags.prefix) \subseteq pools
  OBVIOUS
<1> HIDE DEF published
<1> QED
  BY <1>1, <1>2, <1>3, FinishInv

LEMMA PrintOutputInv == ASSUME IInv, NEW r \in Run, PrintOutput(r) PROVE IInv'
<1>1. /\ UNCHANGED provider /\ faults' \in 0 .. MaxFaults /\ mem[r] \in Memory
      /\ StageOK(user, pools, infoKnown, "print", mem[r]) /\ Goto(r, "done", mem[r])
  BY TypeFacts DEF PrintOutput, IInv, TypeOK
<1>2. StageOK(user, pools, infoKnown, "done", mem[r]) /\ "done" \in Stages
  BY <1>1 DEF StageOK, Stages
<1> QED
  BY <1>1, <1>2, QuietInv

LEMMA RerunInv == ASSUME IInv, NEW r \in Run, Rerun(r) PROVE IInv'
<1>1. /\ UNCHANGED provider /\ faults' \in 0 .. MaxFaults
      /\ mem[r].flags \in RgwFlags /\ "start" \in Stages
  BY TypeFacts DEF Rerun, IInv, TypeOK, Stages
<1> QED
  BY <1>1, BlankType, BlankOK, QuietInv DEF Rerun

LEMMA AbortInv == ASSUME IInv, NEW r \in Run, Abort(r) PROVE IInv'
BY FailInv, FaultType DEF Abort, IInv

\* The gateways touch neither the user nor the exports.
LEMMA GatewayInv ==
    ASSUME IInv, MakePool \/ GatewayStops \/ GatewayStarts
    PROVE  IInv'
<1>1. UNCHANGED <<user, infoKnown, pc, mem>> /\ pools \subseteq pools'
  BY DEF MakePool, GatewayStops, GatewayStarts
<1>2. pools' \subseteq UNION {PoolsOf(p) : p \in Prefixes}
  <2>1. CASE MakePool
    <3>1. PICK r \in Run : \E q \in PoolsOf(mem[r].flags.prefix) : pools' = pools \cup {q}
      BY <2>1 DEF MakePool
    <3>2. mem[r].flags.prefix \in Prefixes
      BY TypeFacts DEF IInv, RgwFlags
    <3>3. pools \subseteq UNION {PoolsOf(p) : p \in Prefixes}
      BY DEF IInv, TypeOK
    <3> QED
      BY <3>1, <3>2, <3>3
  <2>2. CASE GatewayStops \/ GatewayStarts
    BY <2>2 DEF GatewayStops, GatewayStarts, IInv, TypeOK
  <2> QED
    BY <2>1, <2>2
<1>3. up' \subseteq Host /\ faults' \in 0 .. MaxFaults
  BY FaultType DEF MakePool, GatewayStops, GatewayStarts, IInv, TypeOK
<1>4. TypeOK'
  BY <1>1, <1>2, <1>3 DEF IInv, TypeOK
<1>5. \A r \in Run : StageOK(user', pools', infoKnown', pc'[r], mem'[r])
  <2> SUFFICES ASSUME NEW r \in Run PROVE StageOK(user, pools', infoKnown, pc[r], mem[r])
    BY <1>1
  <2>1. StageOK(user, pools, infoKnown, pc[r], mem[r])
    BY DEF IInv
  <2> QED
    BY <1>1, <2>1, StageKept
<1> QED
  BY <1>1, <1>4, <1>5 DEF IInv

LEMMA NextInv == IInv /\ [Next]_vars => IInv'
<1> SUFFICES ASSUME IInv, [Next]_vars PROVE IInv'
  OBVIOUS
<1>1. CASE \E r \in Run : Step(r) \/ Abort(r)
  <2>1. PICK r \in Run : Step(r) \/ Abort(r)
    BY <1>1
  <2> QED
    BY <2>1, StartInv, CreateUserInv, QueryUserInv, AddInfoCapInv, DialEndpointInv,
       IdentifyClusterInv, CheckPoolsInv, PrintOutputInv, RerunInv, AbortInv DEF Step
<1>2. CASE MakePool \/ GatewayStops \/ GatewayStarts
  BY <1>2, GatewayInv
<1>3. CASE UNCHANGED vars
  BY <1>3 DEF vars, IInv, TypeOK
<1> QED
  BY <1>1, <1>2, <1>3 DEF Next

-----------------------------------------------------------------------------
\* What the exports know of the provider, at every stage of each of them.
THEOREM InvariantHolds == Spec => []IInv
<1> QED
  BY InitInv, NextInv, PTL DEF Spec

\* Every variable keeps its type.
THEOREM TypesHold == Spec => []TypeOK
<1>1. IInv => TypeOK
  BY DEF IInv
<1> QED
  BY <1>1, InvariantHolds, PTL

\* create_rgw_admin_ops_user: whatever overlaps with it, fails or is repeated,
\* the keys that an export has printed stay those of the user, which can do what
\* Rook asks of it.
THEOREM KeysStayValid == Spec => []KeysValid
<1>1. IInv => KeysValid
  BY DEF IInv, KeysValid, StageOK, UserOK
<1> QED
  BY <1>1, InvariantHolds, PTL

\* "caps add" is made good by a repeated export after a failure between it and
\* the creation of the user.
THEOREM InfoStaysGranted == Spec => []InfoGranted
<1>1. IInv => InfoGranted
  <2> SUFFICES ASSUME IInv, NEW r \in Run, pc[r] = "done", infoKnown,
                      JsonObjectStore(mem[r]).admin \ {NoKey} # {}
               PROVE  "info" \in user.caps
    BY DEF InfoGranted
  <2>1. mem[r].key # NoKey
    BY DEF JsonObjectStore
  <2> QED
    BY <2>1 DEF IInv, StageOK
<1> QED
  BY <1>1, InvariantHolds, PTL

\* get_rgw_fsid: an endpoint of another cluster is not published.
THEOREM PublishedIsOwn == Spec => []OwnCluster
<1>1. IInv => OwnCluster
  BY DEF IInv, OwnCluster, Printed, StageOK, Own
<1> QED
  BY <1>1, InvariantHolds, PTL

\* The classes that JsonObjectStore prints, if the export published.
LEMMA PrintedClass ==
    ASSUME NEW m, NEW class \in JsonObjectStore(m).class
    PROVE  m.published /\ class = [endpoint |-> m.flags.host, poolPrefix |-> m.flags.prefix]
BY DEF JsonObjectStore

\* validate_rgw_pool_prefix: the pools of a published prefix exist.
THEOREM PoolsStayReady == Spec => []PoolsReady
<1>1. IInv => PoolsReady
  <2> SUFFICES ASSUME IInv, NEW r \in Run, pc[r] = "done",
                      NEW class \in JsonObjectStore(mem[r]).class,
                      class.poolPrefix # "default"
               PROVE  PoolsOf(class.poolPrefix) \subseteq pools
    BY DEF PoolsReady
  <2>1. mem[r].published /\ class.poolPrefix = mem[r].flags.prefix
    BY PrintedClass
  <2> QED
    BY <2>1 DEF IInv, StageOK
<1> QED
  BY <1>1, InvariantHolds, PTL

\* endpoint_dial and the printed certificate: what is published can be connected
\* to with what is printed.
THEOREM ConsumersConnect == Spec => []ConsumerConnects
<1>1. IInv => ConsumerConnects
  <2> SUFFICES ASSUME IInv, NEW r \in Run, pc[r] = "done",
                      NEW class \in JsonObjectStore(mem[r]).class
               PROVE  LET server == Gateway[class.endpoint].server IN
                      \/ server.http \/ server.tls = "public"
                      \/ /\ server.tls = "private"
                         /\ \/ class.endpoint \in JsonObjectStore(mem[r]).cert
                            \/ mem[r].flags.skipTls
    BY DEF ConsumerConnects
  <2>1. mem[r].published /\ class.endpoint = mem[r].flags.host
    BY PrintedClass
  <2>2. mem[r].cert = mem[r].flags.cert /\ Answers(mem[r].flags)
    BY <2>1 DEF IInv, StageOK
  <2>3. mem[r].cert => class.endpoint \in JsonObjectStore(mem[r]).cert
    BY <2>1 DEF JsonObjectStore
  <2>4. /\ mem[r].flags.skipTls \in BOOLEAN /\ mem[r].flags.host \in Host
        /\ Gateway[mem[r].flags.host].server \in Server
    BY TypeFacts, RgwAssumption DEF IInv, RgwFlags
  <2> QED
    BY <2>1, <2>2, <2>3, <2>4 DEF Answers, EndpointDial, Trusts, Verify, Server, Unreachable
<1> QED
  BY <1>1, InvariantHolds, PTL
=============================================================================
