------------------------- MODULE ToolboxWatchProofs -------------------------
(***************************************************************************)
(* The watch loop of the toolbox, for every set of monitor lists and every *)
(* number of fail-overs and restarts: as long as nothing is published      *)
(* while the loop is being set up and change times differ, a remembered    *)
(* change time means that ceph.conf is up to date.                         *)
(***************************************************************************)
EXTENDS ToolboxWatch, SequenceTheorems, TLAPS

\* The loop never remembers or compares with a time of the future.
TimesPast == initialTime <= Current.ctime /\ latestTime <= Current.ctime

\* What write_endpoints has read and not yet written.
HasRead ==
    pc \in {"truncate", "fill"} =>
        /\ endpoints \in Endpoints
        /\ starting \/ latestTime = Current.ctime => endpoints = Current.data

SetUp ==
    /\ starting => pc \in {"read", "truncate", "fill"}
    /\ pc \in {"resolveInitial", "statInitial"} => conf = MonHost(Current.data)

\* The inductive invariant.
IInv == TypeOK /\ TimesPast /\ HasRead /\ SetUp /\ RememberedIsWritten

\* The file always has a current version, with a change time.
LEMMA CurrentType ==
    ASSUME TypeOK
    PROVE  /\ Len(published) \in Nat \ {0}
           /\ Current \in Version
           /\ Current.data \in Endpoints
           /\ Current.ctime \in Nat \ {0}
<1>1. published \in Seq(Version) /\ published # << >>
    BY DEF TypeOK
<1>2. Len(published) \in Nat \ {0} /\ published[Len(published)] \in Version
    BY <1>1
<1>3. Current \in Version
    BY <1>2 DEF Current
<1> QED BY <1>2, <1>3 DEF Version

\* A filtered monitor list is a list of addresses.
LEMMA MonHostType == \A e \in Endpoints : MonHost(e) \in Seq(Addr)
<1> SUFFICES ASSUME NEW e \in Endpoints PROVE MonHost(e) \in Seq(Addr)
    OBVIOUS
<1> DEFINE Entry == [name : STRING, addr : Addr]
<1>1. e \in Seq(Entry)
    BY EndpointsAssumption
<1> HIDE DEF Entry
<1>2. Len(e) \in Nat /\ DOMAIN e = 1 .. Len(e)
    BY <1>1
<1>3. ASSUME NEW i \in 1 .. Len(e) PROVE e[i].addr \in Addr
    <2>1. e[i] \in Entry
        BY <1>1, <1>3
    <2> QED BY <2>1 DEF Entry
<1>4. MonHost(e) \in [1 .. Len(e) -> Addr]
    BY <1>2, <1>3 DEF MonHost
<1>5. \A f : f \in [1 .. Len(e) -> Addr] => f \in Seq(Addr)
    BY <1>2, SeqDef
<1> QED BY <1>4, <1>5

LEMMA InitIInv == Init => IInv
<1> SUFFICES ASSUME Init PROVE IInv
    OBVIOUS
<1>1. PICK e \in Endpoints : published = <<[data |-> e, ctime |-> 1]>>
    BY DEF Init
<1>2. /\ published \in Seq(Version) /\ published # << >>
      /\ Len(published) = 1 /\ Current.ctime = 1
    BY <1>1 DEF Version, Current
<1>3. TypeOK
    BY <1>2, EndpointsAssumption DEF Init, TypeOK, Truncated, Unread, NoTime, Stages
<1> QED BY <1>2, <1>3 DEF Init, IInv, TimesPast, HasRead, SetUp,
        RememberedIsWritten, NoTime

\* A new version of the file: what was remembered of the old one is older than
\* it, and no set-up is going on.
LEMMA PublishStep ==
    ASSUME QuietStart, DistinctTimes, IInv, Publish
    PROVE  IInv'
<1>1. PICK e \in Endpoints : published' = Append(published,
                [data |-> e, ctime |-> Current.ctime + 1])
    BY DEF Publish
<1>2. /\ published \in Seq(Version) /\ Len(published) \in Nat \ {0}
      /\ Current.ctime \in Nat \ {0}
    BY CurrentType DEF IInv, TypeOK
<1>3. [data |-> e, ctime |-> Current.ctime + 1] \in Version
    BY <1>2 DEF Version
<1>4. /\ published' \in Seq(Version) /\ published' # << >>
      /\ Len(published') = Len(published) + 1
      /\ published'[Len(published')] = [data |-> e, ctime |-> Current.ctime + 1]
    BY <1>1, <1>2, <1>3
<1>5. Current'.ctime = Current.ctime + 1
    BY <1>4 DEF Current
<1>6. /\ conf' = conf /\ pc' = pc /\ starting' = starting
      /\ endpoints' = endpoints /\ realPath' = realPath
      /\ initialTime' = initialTime /\ latestTime' = latestTime
      /\ restarts' = restarts
    BY DEF Publish, shell
<1>7. TypeOK'
    BY <1>2, <1>4, <1>6 DEF IInv, TypeOK
<1>8. /\ initialTime <= Current.ctime /\ initialTime \in Nat
      /\ latestTime <= Current.ctime /\ latestTime \in Nat
    BY DEF IInv, TimesPast, TypeOK
<1>9. initialTime' # Current'.ctime /\ latestTime' # Current'.ctime
    BY <1>2, <1>5, <1>6, <1>8
<1>10. TimesPast'
    BY <1>2, <1>5, <1>6, <1>8 DEF TimesPast
<1>11. ~SettingUp
    BY DEF Publish
<1>12. HasRead' /\ SetUp'
    BY <1>6, <1>9, <1>11 DEF IInv, HasRead, SetUp, SettingUp
<1>13. RememberedIsWritten'
    BY <1>6, <1>9 DEF RememberedIsWritten
<1> QED BY <1>7, <1>10, <1>12, <1>13 DEF IInv

\* Every command of the shell and the death of the container.
LEMMA ShellStep ==
    ASSUME IInv, Command \/ Restart
    PROVE  IInv'
<1> DEFINE C == Current
<1>1. /\ Len(published) \in Nat \ {0}
      /\ C.data \in Endpoints /\ C.ctime \in Nat \ {0}
    BY CurrentType DEF IInv
<1>2. published' = published /\ Current' = C
    BY DEF Command, Restart, ReadEndpoints, TruncateConf, FillConf,
           ResolveInitial, StatInitial, Resolve, StatLatest, CompareTimes, Sleep,
           Current
<1>3. ASSUME NEW p \in 0 .. Len(published)
      PROVE  ChangeTime(p) \in Nat /\ ChangeTime(p) <= C.ctime
    BY <1>1 DEF ChangeTime, NoTime
<1> HIDE DEF C
<1>4. CASE ReadEndpoints
    BY <1>1, <1>2, <1>4 DEF C, ReadEndpoints, IInv, TypeOK, TimesPast, HasRead,
        SetUp, RememberedIsWritten, Stages
<1>5. CASE TruncateConf
    <2>1. << >> \in Seq(Addr)
        OBVIOUS
    <2> QED BY <1>1, <1>2, <1>5, <2>1 DEF C, TruncateConf, IInv, TypeOK, TimesPast,
            HasRead, SetUp, RememberedIsWritten, Stages, Truncated
<1>6. CASE FillConf
    <2>1. endpoints \in Endpoints
        BY <1>6 DEF FillConf, IInv, HasRead
    <2>2. conf' \in Seq(Addr)
        BY <1>6, <2>1, MonHostType DEF FillConf
    <2>3. TypeOK'
        BY <1>2, <1>6, <2>2 DEF FillConf, IInv, TypeOK, Stages
    <2>4. TimesPast' /\ HasRead'
        BY <1>2, <1>6 DEF C, FillConf, IInv, TimesPast, HasRead
    <2>5. SetUp' /\ RememberedIsWritten'
        BY <1>2, <1>6 DEF C, FillConf, IInv, HasRead, SetUp, RememberedIsWritten,
            MonHost
    <2> QED BY <2>3, <2>4, <2>5 DEF IInv
<1>7. CASE ResolveInitial
    BY <1>1, <1>2, <1>7 DEF C, ResolveInitial, IInv, TypeOK, TimesPast, HasRead,
        SetUp, RememberedIsWritten, Stages
<1>8. CASE StatInitial
    <2>1. initialTime' \in Nat /\ initialTime' <= C.ctime
        BY <1>3, <1>8 DEF StatInitial, IInv, TypeOK
    <2> QED BY <1>1, <1>2, <1>8, <2>1 DEF C, StatInitial, IInv, TypeOK, TimesPast,
            HasRead, SetUp, RememberedIsWritten, Stages
<1>9. CASE Resolve
    BY <1>1, <1>2, <1>9 DEF C, Resolve, IInv, TypeOK, TimesPast, HasRead, SetUp,
        RememberedIsWritten, Stages
<1>10. CASE StatLatest
    <2>1. latestTime' \in Nat /\ latestTime' <= C.ctime
        BY <1>3, <1>10 DEF StatLatest, IInv, TypeOK
    <2> QED BY <1>1, <1>2, <1>10, <2>1 DEF C, StatLatest, IInv, TypeOK, TimesPast,
            HasRead, SetUp, RememberedIsWritten, Stages
<1>11. CASE CompareTimes
    BY <1>1, <1>2, <1>11 DEF C, CompareTimes, IInv, TypeOK, TimesPast, HasRead,
        SetUp, RememberedIsWritten, Stages
<1>12. CASE Sleep
    BY <1>1, <1>2, <1>12 DEF C, Sleep, IInv, TypeOK, TimesPast, HasRead, SetUp,
        RememberedIsWritten, Stages
<1>13. CASE Restart
    <2>1. restarts' \in 0 .. MaxRestarts
        BY <1>13, EndpointsAssumption DEF Restart, IInv, TypeOK
    <2> QED BY <1>1, <1>2, <1>13, <2>1 DEF C, Restart, IInv, TypeOK, TimesPast,
            HasRead, SetUp, RememberedIsWritten, Stages, NoTime
<1> QED BY <1>4, <1>5, <1>6, <1>7, <1>8, <1>9, <1>10, <1>11, <1>12, <1>13
        DEF Command

\* RememberedIsWritten for every instance in which the kubelet publishes nothing
\* between the first reading of the file and the first look at its change time,
\* and no two versions within one second: stat -c %Z and the order "time first,
\* file second" in watch_endpoints never lose an update.
THEOREM NoLostUpdate ==
    ASSUME QuietStart, DistinctTimes
    PROVE  Spec => []RememberedIsWritten
<1>1. IInv /\ [Next]_vars => IInv'
    <2>1. CASE UNCHANGED vars
        BY <2>1 DEF vars, shell, IInv, TypeOK, TimesPast, HasRead, SetUp,
            RememberedIsWritten, Current
    <2> QED BY <2>1, PublishStep, ShellStep DEF Next
<1>2. IInv => RememberedIsWritten
    BY DEF IInv
<1> QED BY InitIInv, <1>1, <1>2, PTL DEF Spec

-----------------------------------------------------------------------------
(***************************************************************************)
(* Types, without the two assumptions: write_endpoints fills ceph.conf     *)
(* with what it has read, which is a monitor list.                         *)
(***************************************************************************)
TypeInv == TypeOK /\ (pc \in {"truncate", "fill"} => endpoints \in Endpoints)

\* A new version leaves the resolved path within the history.
LEMMA PublishType ==
    ASSUME TypeInv, Publish
    PROVE  TypeInv'
<1>1. PICK e \in Endpoints, t \in {Current.ctime, Current.ctime + 1} :
          published' = Append(published, [data |-> e, ctime |-> t])
  BY DEF Publish
<1>2. published \in Seq(Version) /\ Len(published) \in Nat /\ Current.ctime \in Nat \ {0}
  BY CurrentType DEF TypeInv, TypeOK
<1>3. [data |-> e, ctime |-> t] \in Version
  BY <1>2 DEF Version
<1>4. /\ published' \in Seq(Version) /\ published' # << >>
      /\ Len(published') = Len(published) + 1
  BY <1>1, <1>2, <1>3
<1> QED
  BY <1>2, <1>4 DEF Publish, shell, TypeInv, TypeOK

LEMMA ShellType ==
    ASSUME TypeInv, Command \/ Restart
    PROVE  TypeInv'
<1>1. Len(published) \in Nat \ {0} /\ Current.data \in Endpoints
  BY CurrentType DEF TypeInv
<1>2. ASSUME NEW p \in 0 .. Len(published) PROVE ChangeTime(p) \in Nat
  BY CurrentType DEF ChangeTime, NoTime, TypeInv
<1>3. CASE ReadEndpoints
  BY <1>1, <1>3 DEF ReadEndpoints, TypeInv, TypeOK, Stages
<1>4. CASE TruncateConf
  <2>1. << >> \in Seq(Addr)
    OBVIOUS
  <2> QED
    BY <1>4, <2>1 DEF TruncateConf, Truncated, TypeInv, TypeOK, Stages
<1>5. CASE FillConf
  <2>1. conf' \in Seq(Addr)
    BY <1>5, MonHostType DEF FillConf, TypeInv
  <2> QED
    BY <1>5, <2>1 DEF FillConf, TypeInv, TypeOK, Stages
<1>6. CASE ResolveInitial \/ Resolve
  BY <1>1, <1>6 DEF ResolveInitial, Resolve, TypeInv, TypeOK, Stages
<1>7. CASE StatInitial
  <2>1. initialTime' \in Nat
    BY <1>2, <1>7 DEF StatInitial, TypeInv, TypeOK
  <2> QED
    BY <1>7, <2>1 DEF StatInitial, TypeInv, TypeOK, Stages
<1>8. CASE StatLatest
  <2>1. latestTime' \in Nat
    BY <1>2, <1>8 DEF StatLatest, TypeInv, TypeOK
  <2> QED
    BY <1>8, <2>1 DEF StatLatest, TypeInv, TypeOK, Stages
<1>9. CASE CompareTimes \/ Sleep
  BY <1>9 DEF CompareTimes, Sleep, TypeInv, TypeOK, Stages
<1>10. CASE Restart
  BY <1>1, <1>10, EndpointsAssumption DEF Restart, NoTime, TypeInv, TypeOK, Stages
<1> QED
  BY <1>3, <1>4, <1>5, <1>6, <1>7, <1>8, <1>9, <1>10 DEF Command

\* TypeOK for every instance, with publications and restarts at any moment.
THEOREM TypesHold == Spec => []TypeOK
<1>1. Init => TypeInv
  BY InitIInv DEF IInv, TypeInv, HasRead
<1>2. TypeInv /\ [Next]_vars => TypeInv'
  <2>1. CASE UNCHANGED vars
    BY <2>1 DEF vars, shell, TypeInv, TypeOK
  <2> QED
    BY <2>1, PublishType, ShellType DEF Next
<1>3. TypeInv => TypeOK
  BY DEF TypeInv
<1> QED
  BY <1>1, <1>2, <1>3, PTL DEF Spec

=============================================================================
