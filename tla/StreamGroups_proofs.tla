------------------------- MODULE StreamGroups_proofs -------------------------
(***************************************************************************)
(* Proofs about StreamGroups for any number of groups, nodes and reporting *)
(* terminators, and for streams removed from groups they are not in: lists *)
(* and owner fields agree, the main stream is the best one, capabilities   *)
(* and directions are right, no threads wait for each other, and no event  *)
(* is sent to a group that is gone (TargetCorrect).                        *)
(***************************************************************************)
EXTENDS StreamGroups, FiniteSetTheorems, TLAPS

Destroying == {"locking", "stopping", "clearing"}
WithNode ==
  {"adding", "owning", "joining", "removing", "disowning", "unlinking"}
Owning ==
  {"owning", "joining", "removing", "disowning", "unlinking", "turning",
   "stopping", "clearing"}

\* Where a caller can be, and what it has in hand there.
CallerOK ==
  \A t \in Caller :
    /\ pc[t] = "idle" <=> group[t] = NoGroup
    /\ group[t] # NoGroup => group[t] \in alive
    /\ pc[t] \in Destroying => group[t] \notin listed
    /\ pc[t] \notin Destroying \cup {"idle"} => group[t] \in listed
    /\ \A g \in Group :
         hmtxUseStreamGroup[g] = t <=> group[t] = g /\ pc[t] \in Owning
    /\ pc[t] \in {"turning", "stopping", "clearing"}
         => todo[t] \subseteq pStreamList[group[t]]

MainOK ==
  /\ pc["events"] \in {"idle", "turning"}
  /\ \A g \in alive \ listed : group["main"] = g /\ pc["main"] \in Destroying
  /\ pc["main"] \in WithNode => node \in Node
  /\ pc["main"] \in {"adding", "owning"}
       => entry \in Entry /\ pNode[entry] = node
  /\ pc["main"] = "adding" => \A g \in Group : entry \notin pStreamList[g]
  /\ pc["main"] = "owning" => entry \in pStreamList[group["main"]]
  /\ pc["main"] \in {"adding", "owning", "unlinking"}
       => pOwnerStreamGroup[node] = NoGroup
  /\ pc["main"] = "joining" => pOwnerStreamGroup[node] = group["main"]
  /\ pc["main"] \in {"removing", "disowning"} /\ node \notin misnamed
       => pOwnerStreamGroup[node] \in {group["main"], NoGroup}

\* A group that is not allocated has nothing.
DeadOK ==
  \A g \in Group \ alive : pStreamList[g] = {}

\* A terminator that reports an event stays in the group it has read.
ReportOK ==
  \A n \in Node :
    report[n] = "event" /\ seen[n] # NoGroup => pOwnerStreamGroup[n] = seen[n]

ControlInv == TypeOK /\ CallerOK /\ MainOK /\ DeadOK /\ ReportOK

LEMMA Callers == /\ "main" \in Caller /\ "events" \in Caller
                 /\ \A t \in Caller : t = "main" \/ t = "events"
                 /\ Nobody \notin Caller
BY DEF Caller, Nobody

LEMMA PostedType ==
  ASSUME TypeOK, NEW g \in Group, NEW k \in Nat
  PROVE  Posted(g, k) \in 0..QueueSize
BY QueueAssumption DEF TypeOK, Posted

LEMMA CombinedType == \A S : Combined(S) \subseteq Direction
BY DEF Combined

LEMMA MembersFinite ==
  ASSUME TypeOK, NEW g \in Group
  PROVE  Cardinality(pStreamList[g]) \in Nat
BY EntryAssumption, FS_Subset, FS_CardinalityType DEF TypeOK

LEMMA StreamsType ==
  ASSUME TypeOK, NEW g \in Group
  PROVE  Streams(g) \subseteq Node
BY EntryAssumption DEF TypeOK, Streams

LEMMA TellType ==
  ASSUME TypeOK, NEW n \in Node, NEW d \in Direction, Tell(n, d)
  PROVE  /\ playing' \subseteq Node /\ stray' \subseteq Node
         /\ queue' \in [Group -> 0..QueueSize]
<1>1. /\ playing' \subseteq Node /\ stray' \subseteq Node
      /\ \/ queue' = queue
         \/ /\ pOwnerStreamGroup[n] # NoGroup
            /\ Post(pOwnerStreamGroup[n], 1)
  BY DEF Tell, TypeOK
<1>2. CASE queue' = queue
  BY <1>1, <1>2 DEF TypeOK
<1>3. CASE pOwnerStreamGroup[n] # NoGroup /\ Post(pOwnerStreamGroup[n], 1)
  <2>1. pOwnerStreamGroup[n] \in Group
    BY <1>3 DEF TypeOK
  <2>2. Posted(pOwnerStreamGroup[n], 1) \in 0..QueueSize
    BY <2>1, PostedType
  <2> QED BY <1>1, <1>3, <2>2 DEF Post, TypeOK
<1> QED BY <1>1, <1>2, <1>3

LEMMA ReselectType ==
  ASSUME TypeOK, NEW g \in Group, NEW e \in Entry, NEW S,
         Reselect(g, e, S)
  PROVE  /\ pMainStream' \in [Group -> Entry \cup {NoEntry}]
         /\ chosen' \subseteq Group
BY DEF TypeOK, Reselect

LEMMA ControlInit == Init => ControlInv
BY GroupAssumption, NodeAssumption, QueueAssumption, Callers
   DEF Init, ControlInv, TypeOK, CallerOK, MainOK, DeadOK, ReportOK,
       Direction, Place, Destroying, Owning, WithNode, Nobody, Caller

LEMMA ControlNext == ControlInv /\ [Next]_vars => ControlInv'
<1> SUFFICES ASSUME ControlInv, [Next]_vars PROVE ControlInv'
  OBVIOUS
<1>a. TypeOK /\ CallerOK /\ MainOK /\ DeadOK /\ ReportOK
  BY DEF ControlInv
<1>b. Reporting \subseteq Node
  BY NodeAssumption
<1>c. "STOP" \in Direction /\ "PLAY" \in Direction
  BY DEF Direction
<1> USE <1>a, <1>b, <1>c, Callers, GroupAssumption, NodeAssumption,
        EntryAssumption, QueueAssumption
<1> USE DEF TypeOK, CallerOK, MainOK, DeadOK, ReportOK,
            Place, Destroying, WithNode, Owning,
            MutexFree, FieldFree,
            groupVars, streamVars, moveVars, callVars, reportVars
<1>1. ASSUME NEW g \in Group, CreateEmptyStreamGroup(g)
      PROVE  ControlInv'
  <2>1. TypeOK'
    BY <1>1 DEF CreateEmptyStreamGroup
  <2>2. CallerOK'
    BY <1>1 DEF CreateEmptyStreamGroup
  <2>3. MainOK'
    BY <1>1 DEF CreateEmptyStreamGroup
  <2>4. DeadOK'
    BY <1>1 DEF CreateEmptyStreamGroup
  <2>5. ReportOK'
    BY <1>1 DEF CreateEmptyStreamGroup
  <2> QED BY <2>1, <2>2, <2>3, <2>4, <2>5 DEF ControlInv
<1>2. ASSUME NEW g \in Group, NEW e \in Entry, FindStream(g, e)
      PROVE  ControlInv'
  <2>1. TypeOK'
    BY <1>2 DEF FindStream
  <2>2. CallerOK'
    BY <1>2 DEF FindStream
  <2>3. MainOK'
    BY <1>2 DEF FindStream
  <2>4. DeadOK'
    BY <1>2 DEF FindStream
  <2>5. ReportOK'
    BY <1>2 DEF FindStream
  <2> QED BY <2>1, <2>2, <2>3, <2>4, <2>5 DEF ControlInv
<1>3. ASSUME NEW g \in Group, NEW n \in Node, RemoveStreamFromGroup(g, n)
      PROVE  ControlInv'
  <2>1. TypeOK'
    BY <1>3 DEF RemoveStreamFromGroup
  <2>2. CallerOK'
    BY <1>3 DEF RemoveStreamFromGroup
  <2>3. MainOK'
    BY <1>3 DEF RemoveStreamFromGroup
  <2>4. DeadOK'
    BY <1>3 DEF RemoveStreamFromGroup
  <2>5. ReportOK'
    BY <1>3 DEF RemoveStreamFromGroup
  <2> QED BY <2>1, <2>2, <2>3, <2>4, <2>5 DEF ControlInv
<1>4. ASSUME NEW g \in Group, NEW e \in Entry, SetMainStreamOfGroup(g, e)
      PROVE  ControlInv'
  <2>1. TypeOK'
    BY <1>4 DEF SetMainStreamOfGroup
  <2>2. CallerOK'
    BY <1>4 DEF SetMainStreamOfGroup
  <2>3. MainOK'
    BY <1>4 DEF SetMainStreamOfGroup
  <2>4. DeadOK'
    BY <1>4 DEF SetMainStreamOfGroup
  <2>5. ReportOK'
    BY <1>4 DEF SetMainStreamOfGroup
  <2> QED BY <2>1, <2>2, <2>3, <2>4, <2>5 DEF ControlInv
<1>5. ASSUME NEW g \in Group, NEW b \in BOOLEAN, SubscribeEvents(g, b)
      PROVE  ControlInv'
  <2>1. TypeOK'
    BY <1>5 DEF SubscribeEvents
  <2>2. CallerOK'
    BY <1>5 DEF SubscribeEvents
  <2>3. MainOK'
    BY <1>5 DEF SubscribeEvents
  <2>4. DeadOK'
    BY <1>5 DEF SubscribeEvents
  <2>5. ReportOK'
    BY <1>5 DEF SubscribeEvents
  <2> QED BY <2>1, <2>2, <2>3, <2>4, <2>5 DEF ControlInv
<1>6. ASSUME NEW g \in Group, DestroyStreamGroup(g)
      PROVE  ControlInv'
  <2>1. TypeOK'
    BY <1>6 DEF DestroyStreamGroup
  <2>2. CallerOK'
    BY <1>6 DEF DestroyStreamGroup
  <2>3. MainOK'
    BY <1>6 DEF DestroyStreamGroup
  <2>4. DeadOK'
    BY <1>6 DEF DestroyStreamGroup
  <2>5. ReportOK'
    BY <1>6 DEF DestroyStreamGroup
  <2> QED BY <2>1, <2>2, <2>3, <2>4, <2>5 DEF ControlInv
<1>7. CASE AddStream
  <2>1. TypeOK'
    BY <1>7 DEF AddStream
  <2>2. CallerOK'
    BY <1>7 DEF AddStream
  <2>3. MainOK'
    BY <1>7 DEF AddStream
  <2>4. DeadOK'
    BY <1>7 DEF AddStream
  <2>5. ReportOK'
    BY <1>7 DEF AddStream
  <2> QED BY <2>1, <2>2, <2>3, <2>4, <2>5 DEF ControlInv
<1>8. CASE OwnStream
  <2>1. TypeOK'
    BY <1>8, CombinedType DEF OwnStream, PreferNew, Recalculate
  <2>2. CallerOK'
    BY <1>8 DEF OwnStream
  <2>3. MainOK'
    BY <1>8 DEF OwnStream
  <2>4. DeadOK'
    BY <1>8 DEF OwnStream
  <2>5. ReportOK'
    BY <1>8 DEF OwnStream
  <2> QED BY <2>1, <2>2, <2>3, <2>4, <2>5 DEF ControlInv
<1>9. CASE JoinStream
  <2>1. TypeOK'
    <3> DEFINE g == group["main"]
    <3>1. g \in Group /\ node \in Node
      BY <1>9 DEF JoinStream
    <3>2. /\ playing' \subseteq Node /\ stray' \subseteq Node
          /\ queue' \in [Group -> 0..QueueSize]
          /\ iDirection' \in [Group -> Direction]
      <4>1. CASE Join(g, node)
        <5>1. iDirection[g] \in Direction
          BY <3>1
        <5> QED BY <4>1, <3>1, <5>1, TellType DEF Join
      <4>2. CASE JoinRefused(g, node)
        <5>1. Posted(g, Cardinality(pStreamList[g])) \in 0..QueueSize
          BY <3>1, MembersFinite, PostedType
        <5>2. Streams(g) \subseteq Node
          BY <3>1, StreamsType
        <5> QED BY <4>2, <3>1, <5>1, <5>2 DEF JoinRefused, Post
      <4> QED BY <4>1, <4>2, <1>9 DEF JoinStream
    <3> QED BY <1>9, <3>1, <3>2 DEF JoinStream, ReturnMain
  <2>2. CallerOK'
    BY <1>9 DEF JoinStream, ReturnMain
  <2>3. MainOK'
    BY <1>9 DEF JoinStream, ReturnMain
  <2>4. DeadOK'
    BY <1>9 DEF JoinStream, ReturnMain
  <2>5. ReportOK'
    BY <1>9 DEF JoinStream, ReturnMain
  <2> QED BY <2>1, <2>2, <2>3, <2>4, <2>5 DEF ControlInv
<1>10. CASE StopRemoved
  <2>1. TypeOK'
    <3>1. node \in Node /\ "STOP" \in Direction
      BY <1>10 DEF StopRemoved
    <3>2. /\ playing' \subseteq Node /\ stray' \subseteq Node
          /\ queue' \in [Group -> 0..QueueSize]
      BY <1>10, <3>1, TellType DEF StopRemoved
    <3> QED BY <1>10, <3>2 DEF StopRemoved
  <2>2. CallerOK'
    BY <1>10 DEF StopRemoved
  <2>3. MainOK'
    BY <1>10 DEF StopRemoved
  <2>4. DeadOK'
    BY <1>10 DEF StopRemoved
  <2>5. ReportOK'
    BY <1>10 DEF StopRemoved
  <2> QED BY <2>1, <2>2, <2>3, <2>4, <2>5 DEF ControlInv
<1>11. CASE DisownRemoved
  <2>1. TypeOK'
    BY <1>11 DEF DisownRemoved, Disown
  <2>2. CallerOK'
    BY <1>11 DEF DisownRemoved, Disown
  <2>3. MainOK'
    BY <1>11 DEF DisownRemoved, Disown
  <2>4. DeadOK'
    BY <1>11 DEF DisownRemoved, Disown
  <2>5. ReportOK'
    BY <1>11 DEF DisownRemoved, Disown
  <2> QED BY <2>1, <2>2, <2>3, <2>4, <2>5 DEF ControlInv
<1>12. CASE UnlinkRemoved
  <2>1. TypeOK'
    <3> DEFINE g == group["main"]
    <3>1. g \in Group
      BY <1>12 DEF UnlinkRemoved
    <3>2. CASE UNCHANGED streamVars
      BY <1>12, <3>1, <3>2 DEF UnlinkRemoved, ReturnMain
    <3>3. ASSUME NEW e \in pStreamList[g], pNode[e] = node,
                 pStreamList' = [pStreamList EXCEPT ![g] = @ \ {e}],
                 Reselect(g, e, pStreamList[g] \ {e}),
                 Recalculate(g, {pNode[f] : f \in pStreamList[g] \ {e}})
          PROVE  TypeOK'
      <4>1. /\ pMainStream' \in [Group -> Entry \cup {NoEntry}]
            /\ chosen' \subseteq Group
        BY <3>1, <3>3, ReselectType
      <4>2. iTermCapabilities' \in [Group -> SUBSET Direction]
        BY <3>1, <3>3, CombinedType DEF Recalculate
      <4>3. pStreamList' \in [Group -> SUBSET Entry]
        BY <3>1, <3>3
      <4> QED BY <1>12, <3>1, <4>1, <4>2, <4>3 DEF UnlinkRemoved, ReturnMain
    <3> QED BY <1>12, <3>2, <3>3 DEF UnlinkRemoved
  <2>2. CallerOK'
    <3>1. /\ group["main"] \in Group /\ group["main"] \in alive
          /\ hmtxUseStreamGroup[group["main"]] = "main"
      BY <1>12 DEF UnlinkRemoved
    <3>2. /\ \A g \in Group : pStreamList'[g] \subseteq pStreamList[g]
          /\ \A g \in Group \ {group["main"]} :
               pStreamList'[g] = pStreamList[g]
      <4>1. \/ pStreamList' = pStreamList
            \/ \E e \in pStreamList[group["main"]] :
                 pStreamList' =
                   [pStreamList EXCEPT ![group["main"]] = @ \ {e}]
        BY <1>12 DEF UnlinkRemoved
      <4> QED BY <3>1, <4>1
    <3>3. /\ alive' = alive /\ listed' = listed /\ todo' = todo
          /\ pc' = [pc EXCEPT !["main"] = "idle"]
          /\ group' = [group EXCEPT !["main"] = NoGroup]
          /\ hmtxUseStreamGroup' =
               [hmtxUseStreamGroup EXCEPT ![group["main"]] = Nobody]
      BY <1>12 DEF UnlinkRemoved, ReturnMain
    <3> QED BY <3>1, <3>2, <3>3
  <2>3. MainOK'
    BY <1>12 DEF UnlinkRemoved, ReturnMain
  <2>4. DeadOK'
    <3>1. /\ group["main"] \in Group /\ group["main"] \in alive
          /\ hmtxUseStreamGroup[group["main"]] = "main"
      BY <1>12 DEF UnlinkRemoved
    <3>2. /\ \A g \in Group : pStreamList'[g] \subseteq pStreamList[g]
          /\ \A g \in Group \ {group["main"]} :
               pStreamList'[g] = pStreamList[g]
      <4>1. \/ pStreamList' = pStreamList
            \/ \E e \in pStreamList[group["main"]] :
                 pStreamList' =
                   [pStreamList EXCEPT ![group["main"]] = @ \ {e}]
        BY <1>12 DEF UnlinkRemoved
      <4> QED BY <3>1, <4>1
    <3>3. alive' = alive
      BY <1>12 DEF UnlinkRemoved
    <3> QED BY <3>2, <3>3
  <2>5. ReportOK'
    BY <1>12 DEF UnlinkRemoved, ReturnMain
  <2> QED BY <2>1, <2>2, <2>3, <2>4, <2>5 DEF ControlInv
<1>13. CASE LockGroup
  <2>1. TypeOK'
    BY <1>13 DEF LockGroup
  <2>2. CallerOK'
    BY <1>13 DEF LockGroup
  <2>3. MainOK'
    BY <1>13 DEF LockGroup
  <2>4. DeadOK'
    BY <1>13 DEF LockGroup
  <2>5. ReportOK'
    BY <1>13 DEF LockGroup
  <2> QED BY <2>1, <2>2, <2>3, <2>4, <2>5 DEF ControlInv
<1>14. CASE AllStopped
  <2>1. TypeOK'
    BY <1>14 DEF AllStopped
  <2>2. CallerOK'
    BY <1>14 DEF AllStopped
  <2>3. MainOK'
    BY <1>14 DEF AllStopped
  <2>4. DeadOK'
    BY <1>14 DEF AllStopped
  <2>5. ReportOK'
    BY <1>14 DEF AllStopped
  <2> QED BY <2>1, <2>2, <2>3, <2>4, <2>5 DEF ControlInv
<1>15. CASE DrainQueue
  <2>1. TypeOK'
    BY <1>15 DEF DrainQueue
  <2>2. CallerOK'
    BY <1>15 DEF DrainQueue
  <2>3. MainOK'
    BY <1>15 DEF DrainQueue
  <2>4. DeadOK'
    BY <1>15 DEF DrainQueue
  <2>5. ReportOK'
    BY <1>15 DEF DrainQueue
  <2> QED BY <2>1, <2>2, <2>3, <2>4, <2>5 DEF ControlInv
<1>16. CASE FreeGroup
  <2>1. TypeOK'
    BY <1>16 DEF FreeGroup, ReturnMain
  <2>2. CallerOK'
    BY <1>16 DEF FreeGroup, ReturnMain
  <2>3. MainOK'
    BY <1>16 DEF FreeGroup, ReturnMain
  <2>4. DeadOK'
    BY <1>16 DEF FreeGroup, ReturnMain
  <2>5. ReportOK'
    BY <1>16 DEF FreeGroup, ReturnMain
  <2> QED BY <2>1, <2>2, <2>3, <2>4, <2>5 DEF ControlInv
<1>17. ASSUME NEW e \in Entry, StopStream(e)
      PROVE  ControlInv'
  <2>1. TypeOK'
    <3>1. pNode[e] \in Node /\ "STOP" \in Direction
      BY <1>17 DEF StopStream
    <3>2. /\ playing' \subseteq Node /\ stray' \subseteq Node
          /\ queue' \in [Group -> 0..QueueSize]
      BY <1>17, <3>1, TellType DEF StopStream
    <3> QED BY <1>17, <3>2 DEF StopStream
  <2>2. CallerOK'
    BY <1>17 DEF StopStream
  <2>3. MainOK'
    BY <1>17 DEF StopStream
  <2>4. DeadOK'
    BY <1>17 DEF StopStream
  <2>5. ReportOK'
    BY <1>17 DEF StopStream
  <2> QED BY <2>1, <2>2, <2>3, <2>4, <2>5 DEF ControlInv
<1>18. ASSUME NEW e \in Entry, ForgetStream(e)
      PROVE  ControlInv'
  <2>1. TypeOK'
    BY <1>18 DEF ForgetStream, Disown
  <2>2. CallerOK'
    BY <1>18 DEF ForgetStream, Disown
  <2>3. MainOK'
    BY <1>18 DEF ForgetStream, Disown
  <2>4. DeadOK'
    BY <1>18 DEF ForgetStream, Disown
  <2>5. ReportOK'
    BY <1>18 DEF ForgetStream, Disown
  <2> QED BY <2>1, <2>2, <2>3, <2>4, <2>5 DEF ControlInv
<1>19. ASSUME NEW t \in Caller, NEW g \in Group, NEW d \in Direction,
              SetDirection(t, g, d)
      PROVE  ControlInv'
  <2>1. TypeOK'
    BY <1>19 DEF SetDirection
  <2>2. CallerOK'
    BY <1>19 DEF SetDirection
  <2>3. MainOK'
    BY <1>19 DEF SetDirection
  <2>4. DeadOK'
    BY <1>19 DEF SetDirection
  <2>5. ReportOK'
    BY <1>19 DEF SetDirection
  <2> QED BY <2>1, <2>2, <2>3, <2>4, <2>5 DEF ControlInv
<1>20. ASSUME NEW t \in Caller, NEW e \in Entry, TurnStream(t, e)
      PROVE  ControlInv'
  <2>1. TypeOK'
    <3>1. pNode[e] \in Node /\ iDirection[group[t]] \in Direction
      BY <1>20 DEF TurnStream
    <3>2. /\ playing' \subseteq Node /\ stray' \subseteq Node
          /\ queue' \in [Group -> 0..QueueSize]
      BY <1>20, <3>1, TellType DEF TurnStream
    <3> QED BY <1>20, <3>2 DEF TurnStream
  <2>2. CallerOK'
    BY <1>20 DEF TurnStream
  <2>3. MainOK'
    BY <1>20 DEF TurnStream
  <2>4. DeadOK'
    BY <1>20 DEF TurnStream
  <2>5. ReportOK'
    BY <1>20 DEF TurnStream
  <2> QED BY <2>1, <2>2, <2>3, <2>4, <2>5 DEF ControlInv
<1>21. ASSUME NEW t \in Caller, ReturnSetDirection(t)
      PROVE  ControlInv'
  <2>1. TypeOK'
    BY <1>21 DEF ReturnSetDirection
  <2>2. CallerOK'
    BY <1>21 DEF ReturnSetDirection
  <2>3. MainOK'
    BY <1>21 DEF ReturnSetDirection
  <2>4. DeadOK'
    BY <1>21 DEF ReturnSetDirection
  <2>5. ReportOK'
    BY <1>21 DEF ReturnSetDirection
  <2> QED BY <2>1, <2>2, <2>3, <2>4, <2>5 DEF ControlInv
<1>22. ASSUME NEW g \in Group, GetEvent(g)
      PROVE  ControlInv'
  <2>1. TypeOK'
    BY <1>22 DEF GetEvent
  <2>2. CallerOK'
    BY <1>22 DEF GetEvent
  <2>3. MainOK'
    BY <1>22 DEF GetEvent
  <2>4. DeadOK'
    BY <1>22 DEF GetEvent
  <2>5. ReportOK'
    BY <1>22 DEF GetEvent
  <2> QED BY <2>1, <2>2, <2>3, <2>4, <2>5 DEF ControlInv
<1>23. ASSUME NEW n \in Node, ReportPosition(n)
      PROVE  ControlInv'
  <2>1. TypeOK'
    BY <1>23 DEF ReportPosition
  <2>2. CallerOK'
    BY <1>23 DEF ReportPosition
  <2>3. MainOK'
    BY <1>23 DEF ReportPosition
  <2>4. DeadOK'
    BY <1>23 DEF ReportPosition
  <2>5. ReportOK'
    BY <1>23 DEF ReportPosition
  <2> QED BY <2>1, <2>2, <2>3, <2>4, <2>5 DEF ControlInv
<1>24. ASSUME NEW n \in Node, ReturnPosition(n)
      PROVE  ControlInv'
  <2>1. TypeOK'
    BY <1>24 DEF ReturnPosition
  <2>2. CallerOK'
    BY <1>24 DEF ReturnPosition
  <2>3. MainOK'
    BY <1>24 DEF ReturnPosition
  <2>4. DeadOK'
    BY <1>24 DEF ReturnPosition
  <2>5. ReportOK'
    BY <1>24 DEF ReturnPosition
  <2> QED BY <2>1, <2>2, <2>3, <2>4, <2>5 DEF ControlInv
<1>25. ASSUME NEW n \in Node, ReportEvent(n)
      PROVE  ControlInv'
  <2>1. TypeOK'
    BY <1>25 DEF ReportEvent
  <2>2. CallerOK'
    BY <1>25 DEF ReportEvent
  <2>3. MainOK'
    BY <1>25 DEF ReportEvent
  <2>4. DeadOK'
    BY <1>25 DEF ReportEvent
  <2>5. ReportOK'
    BY <1>25 DEF ReportEvent
  <2> QED BY <2>1, <2>2, <2>3, <2>4, <2>5 DEF ControlInv
<1>26. ASSUME NEW n \in Node, SendEvent(n)
      PROVE  ControlInv'
  <2>1. TypeOK'
    <3>1. queue' \in [Group -> 0..QueueSize]
      <4>1. CASE seen[n] = NoGroup
        BY <1>26, <4>1 DEF SendEvent
      <4>2. CASE seen[n] # NoGroup
        <5>1. Posted(seen[n], 1) \in 0..QueueSize
          BY <4>2, PostedType
        <5> QED BY <1>26, <4>2, <5>1 DEF SendEvent, Post
      <4> QED BY <4>1, <4>2
    <3> QED BY <1>26, <3>1 DEF SendEvent
  <2>2. CallerOK'
    BY <1>26 DEF SendEvent
  <2>3. MainOK'
    BY <1>26 DEF SendEvent
  <2>4. DeadOK'
    BY <1>26 DEF SendEvent
  <2>5. ReportOK'
    BY <1>26 DEF SendEvent
  <2> QED BY <2>1, <2>2, <2>3, <2>4, <2>5 DEF ControlInv
<1>27. CASE UNCHANGED vars
  BY <1>27 DEF vars, ControlInv
<1> QED BY <1>1, <1>2, <1>3, <1>4, <1>5, <1>6, <1>7, <1>8, <1>9, <1>10,
           <1>11, <1>12, <1>13, <1>14, <1>15, <1>16, <1>17, <1>18, <1>19,
           <1>20, <1>21, <1>22, <1>23, <1>24, <1>25, <1>26, <1>27
        DEF Next, MainCall, MainStep, DirectionStep, Reporter

-----------------------------------------------------------------------------
(* Lists and owner fields.                                                 *)

\* What MembersOwned reads.
memberVars == <<pStreamList, pOwnerStreamGroup, misnamed, todo["main"],
                pc["main"], group["main"], node>>

LEMMA MembersKept ==
  ASSUME MembersOwned, UNCHANGED memberVars
  PROVE  MembersOwned'
BY DEF MembersOwned, memberVars, Linked, Freed, InTransit

LEMMA MembersNext == ControlInv /\ MembersOwned /\ [Next]_vars => MembersOwned'
<1> SUFFICES ASSUME ControlInv, MembersOwned, [Next]_vars PROVE MembersOwned'
  OBVIOUS
<1>a. TypeOK /\ CallerOK /\ MainOK /\ DeadOK /\ ReportOK
  BY DEF ControlInv
<1>b. Reporting \subseteq Node
  BY NodeAssumption
<1> USE <1>a, <1>b, Callers, GroupAssumption, NodeAssumption, EntryAssumption
<1> USE DEF groupVars, streamVars, moveVars, callVars, reportVars
<1>1. ASSUME NEW g \in Group, CreateEmptyStreamGroup(g)
      PROVE  MembersOwned'
  BY <1>1 DEF CreateEmptyStreamGroup, TypeOK, CallerOK, MainOK, DeadOK,
              WithNode, Destroying, Owning, MembersOwned, Linked, Freed,
              InTransit, Streams
<1>2. ASSUME NEW g \in Group, NEW e \in Entry, FindStream(g, e)
      PROVE  MembersOwned'
  BY <1>2 DEF FindStream, TypeOK, CallerOK, MainOK, DeadOK, WithNode,
              Destroying, Owning, MembersOwned, Linked, Freed, InTransit,
              Streams
<1>3. ASSUME NEW g \in Group, NEW n \in Node, RemoveStreamFromGroup(g, n)
      PROVE  MembersOwned'
  BY <1>3 DEF RemoveStreamFromGroup, TypeOK, CallerOK, MainOK, DeadOK,
              WithNode, Destroying, Owning, MembersOwned, Linked, Freed,
              InTransit, Streams
<1>4. ASSUME NEW g \in Group, NEW e \in Entry, SetMainStreamOfGroup(g, e)
      PROVE  MembersOwned'
  BY <1>4, MembersKept DEF SetMainStreamOfGroup, memberVars, TypeOK, Caller
<1>5. ASSUME NEW g \in Group, NEW b \in BOOLEAN, SubscribeEvents(g, b)
      PROVE  MembersOwned'
  BY <1>5, MembersKept DEF SubscribeEvents, memberVars, TypeOK, Caller
<1>6. ASSUME NEW g \in Group, DestroyStreamGroup(g)
      PROVE  MembersOwned'
  BY <1>6 DEF DestroyStreamGroup, TypeOK, CallerOK, MainOK, DeadOK, WithNode,
              Destroying, Owning, MembersOwned, Linked, Freed, InTransit,
              Streams
<1>7. CASE AddStream
  BY <1>7 DEF AddStream, TypeOK, CallerOK, MainOK, DeadOK, WithNode,
              Destroying, Owning, MembersOwned, Linked, Freed, InTransit,
              Streams
<1>8. CASE OwnStream
  BY <1>8 DEF OwnStream, TypeOK, CallerOK, MainOK, DeadOK, WithNode,
              Destroying, Owning, MembersOwned, Linked, Freed, InTransit,
              Streams
<1>9. CASE JoinStream
  BY <1>9 DEF JoinStream, ReturnMain, TypeOK, CallerOK, MainOK, DeadOK,
              WithNode, Destroying, Owning, MembersOwned, Linked, Freed,
              InTransit, Streams
<1>10. CASE StopRemoved
  BY <1>10 DEF StopRemoved, TypeOK, CallerOK, MainOK, DeadOK, WithNode,
               Destroying, Owning, MembersOwned, Linked, Freed, InTransit,
               Streams
<1>11. CASE DisownRemoved
  BY <1>11 DEF DisownRemoved, Disown, TypeOK, CallerOK, MainOK, DeadOK,
               WithNode, Destroying, Owning, MembersOwned, Linked, Freed,
               InTransit, Streams
<1>12. CASE UnlinkRemoved
  <2> DEFINE g == group["main"]
  <2>1. /\ pc["main"] = "unlinking" /\ pc'["main"] = "idle"
        /\ g \in Group /\ node \in Node
        /\ pOwnerStreamGroup[node] = NoGroup
        /\ pOwnerStreamGroup' = pOwnerStreamGroup /\ misnamed' = misnamed
    BY <1>12 DEF UnlinkRemoved, ReturnMain, TypeOK, CallerOK, MainOK, WithNode
  <2>2. \A h \in Group : Linked(h) = pStreamList[h]
    BY <2>1 DEF Linked, Freed
  <2>3. \A h \in Group : Linked(h)' = pStreamList'[h]
    BY <2>1 DEF Linked, Freed
  <2>4. \A h \in Group, n \in Node : InTransit(n, h) <=> h = g /\ n = node
    BY <2>1 DEF InTransit
  <2>5. CASE pStreamList' = pStreamList /\ node \notin Streams(g)
    <3>1. \A f \in pStreamList[g] : pNode[f] # node
      BY <2>5 DEF Streams
    <3> QED BY <2>1, <2>2, <2>3, <2>4, <2>5, <3>1 DEF MembersOwned, TypeOK
  <2>6. ASSUME NEW e \in pStreamList[g], pNode[e] = node,
               pStreamList' = [pStreamList EXCEPT ![g] = @ \ {e}]
        PROVE  MembersOwned'
    <3>1. /\ pStreamList'[g] = pStreamList[g] \ {e}
          /\ \A h \in Group \ {g} : pStreamList'[h] = pStreamList[h]
      BY <2>1, <2>6 DEF TypeOK
    <3>2. ASSUME NEW h \in Group, NEW n \in Node, pOwnerStreamGroup[n] = h
          PROVE  \E f \in pStreamList'[h] : pNode[f] = n
      <4>1. PICK f \in pStreamList[h] : pNode[f] = n
        BY <2>2, <3>2 DEF MembersOwned
      <4>2. n # node
        BY <2>1, <3>2
      <4> QED BY <2>6, <3>1, <4>1, <4>2
    <3>3. ASSUME NEW h \in Group, NEW f \in pStreamList'[h],
                 pNode[f] \notin misnamed
          PROVE  /\ pOwnerStreamGroup[pNode[f]] = h
                 /\ \A k \in pStreamList'[h] : pNode[k] = pNode[f] => k = f
      <4>1. f \in pStreamList[h] /\ pStreamList'[h] \subseteq pStreamList[h]
        BY <3>1, <3>3
      <4>2. /\ pOwnerStreamGroup[pNode[f]] = h \/ InTransit(pNode[f], h)
            /\ \A k \in pStreamList[h] : pNode[k] = pNode[f] => k = f
        BY <2>2, <3>3, <4>1 DEF MembersOwned
      <4>3. ~InTransit(pNode[f], h)
        <5>1. ASSUME h = g, pNode[f] = node PROVE FALSE
          BY <2>6, <3>1, <3>3, <4>2, <5>1
        <5>2. pNode[f] \in Node
          BY <4>1 DEF TypeOK
        <5> QED BY <2>4, <5>1, <5>2
      <4> QED BY <4>1, <4>2, <4>3
    <3> QED BY <2>1, <2>3, <3>2, <3>3 DEF MembersOwned
  <2> QED BY <1>12, <2>5, <2>6 DEF UnlinkRemoved
<1>13. CASE LockGroup
  BY <1>13 DEF LockGroup, TypeOK, CallerOK, MainOK, DeadOK, WithNode,
               Destroying, Owning, MembersOwned, Linked, Freed, InTransit,
               Streams
<1>14. CASE AllStopped
  BY <1>14 DEF AllStopped, TypeOK, CallerOK, MainOK, DeadOK, WithNode,
               Destroying, Owning, MembersOwned, Linked, Freed, InTransit,
               Streams
<1>15. CASE DrainQueue
  BY <1>15, MembersKept DEF DrainQueue, memberVars, TypeOK, Caller
<1>16. CASE FreeGroup
  BY <1>16 DEF FreeGroup, ReturnMain, TypeOK, CallerOK, MainOK, DeadOK,
               WithNode, Destroying, Owning, MembersOwned, Linked, Freed,
               InTransit, Streams
<1>17. ASSUME NEW e \in Entry, StopStream(e)
      PROVE  MembersOwned'
  BY <1>17 DEF StopStream, TypeOK, CallerOK, MainOK, DeadOK, WithNode,
               Destroying, Owning, MembersOwned, Linked, Freed, InTransit,
               Streams
<1>18. ASSUME NEW e \in Entry, ForgetStream(e)
      PROVE  MembersOwned'
  BY <1>18 DEF ForgetStream, Disown, TypeOK, CallerOK, MainOK, DeadOK,
               WithNode, Destroying, Owning, MembersOwned, Linked, Freed,
               InTransit, Streams
<1>19. ASSUME NEW t \in Caller, NEW g \in Group, NEW d \in Direction,
              SetDirection(t, g, d)
      PROVE  MembersOwned'
  BY <1>19 DEF SetDirection, TypeOK, CallerOK, MainOK, DeadOK, WithNode,
               Destroying, Owning, MembersOwned, Linked, Freed, InTransit,
               Streams
<1>20. ASSUME NEW t \in Caller, NEW e \in Entry, TurnStream(t, e)
      PROVE  MembersOwned'
  BY <1>20 DEF TurnStream, TypeOK, CallerOK, MainOK, DeadOK, WithNode,
               Destroying, Owning, MembersOwned, Linked, Freed, InTransit,
               Streams
<1>21. ASSUME NEW t \in Caller, ReturnSetDirection(t)
      PROVE  MembersOwned'
  BY <1>21 DEF ReturnSetDirection, TypeOK, CallerOK, MainOK, DeadOK, WithNode,
               Destroying, Owning, MembersOwned, Linked, Freed, InTransit,
               Streams
<1>22. ASSUME NEW g \in Group, GetEvent(g)
      PROVE  MembersOwned'
  BY <1>22, MembersKept DEF GetEvent, memberVars, TypeOK, Caller
<1>23. ASSUME NEW n \in Node, ReportPosition(n)
      PROVE  MembersOwned'
  BY <1>23, MembersKept DEF ReportPosition, memberVars, TypeOK, Caller
<1>24. ASSUME NEW n \in Node, ReturnPosition(n)
      PROVE  MembersOwned'
  BY <1>24, MembersKept DEF ReturnPosition, memberVars, TypeOK, Caller
<1>25. ASSUME NEW n \in Node, ReportEvent(n)
      PROVE  MembersOwned'
  BY <1>25, MembersKept DEF ReportEvent, memberVars, TypeOK, Caller
<1>26. ASSUME NEW n \in Node, SendEvent(n)
      PROVE  MembersOwned'
  BY <1>26, MembersKept DEF SendEvent, memberVars, TypeOK, Caller
<1>27. CASE UNCHANGED vars
  BY <1>27, MembersKept DEF vars, memberVars
<1> QED BY <1>1, <1>2, <1>3, <1>4, <1>5, <1>6, <1>7, <1>8, <1>9, <1>10,
           <1>11, <1>12, <1>13, <1>14, <1>15, <1>16, <1>17, <1>18, <1>19,
           <1>20, <1>21, <1>22, <1>23, <1>24, <1>25, <1>26, <1>27
        DEF Next, MainCall, MainStep, DirectionStep, Reporter

-----------------------------------------------------------------------------
(* The capabilities and the main stream.                                   *)

LEMMA CombinedEmpty == Combined({}) = {}
BY DEF Combined

\* The main thread has linked an entry to g and not yet looked at it.
Owned(g) == pc["main"] = "owning" /\ group["main"] = g

CapsOK ==
  \A g \in Group : ~Owned(g) => iTermCapabilities[g] = Combined(Streams(g))

capsVars == <<pStreamList, iTermCapabilities, pc["main"], group["main"]>>

LEMMA CapsKept ==
  ASSUME CapsOK, UNCHANGED capsVars
  PROVE  CapsOK'
BY DEF CapsOK, capsVars, Owned, Streams

LEMMA CapsNext == ControlInv /\ CapsOK /\ [Next]_vars => CapsOK'
<1> SUFFICES ASSUME ControlInv, CapsOK, [Next]_vars PROVE CapsOK'
  OBVIOUS
<1>a. TypeOK /\ CallerOK /\ MainOK /\ DeadOK /\ ReportOK
  BY DEF ControlInv
<1>b. Reporting \subseteq Node
  BY NodeAssumption
<1> USE <1>a, <1>b, Callers, GroupAssumption, NodeAssumption, EntryAssumption
<1> USE DEF groupVars, streamVars, moveVars, callVars, reportVars
<1>1. ASSUME NEW g \in Group, CreateEmptyStreamGroup(g)
      PROVE  CapsOK'
  <2>1. PICK k \in Group :
        /\ ~Owned(k)
        /\ iTermCapabilities' = [iTermCapabilities EXCEPT ![k] = {}]
        /\ pStreamList' = [pStreamList EXCEPT ![k] = {}]
        /\ \A h \in Group : Owned(h)' => Owned(h)
        /\ \A h \in Group : ~Owned(h)
    BY <1>1 DEF CreateEmptyStreamGroup, Owned, TypeOK, CallerOK
  <2>2. Streams(k)' = {}
    BY <2>1 DEF Streams, TypeOK
  <2>3. iTermCapabilities'[k] = Combined(Streams(k)')
    BY <2>1, <2>2, CombinedEmpty DEF TypeOK
  <2>4. ASSUME NEW h \in Group, h # k
        PROVE  iTermCapabilities'[h] = Combined(Streams(h)')
    BY <2>1, <2>4 DEF TypeOK, CapsOK, Streams
  <2> QED BY <2>3, <2>4 DEF CapsOK
<1>2. ASSUME NEW g \in Group, NEW e \in Entry, FindStream(g, e)
      PROVE  CapsOK'
  BY <1>2 DEF FindStream, TypeOK, CallerOK, MainOK, WithNode, CapsOK, Owned,
              Streams
<1>3. ASSUME NEW g \in Group, NEW n \in Node, RemoveStreamFromGroup(g, n)
      PROVE  CapsOK'
  BY <1>3 DEF RemoveStreamFromGroup, TypeOK, CallerOK, MainOK, WithNode,
              CapsOK, Owned, Streams
<1>4. ASSUME NEW g \in Group, NEW e \in Entry, SetMainStreamOfGroup(g, e)
      PROVE  CapsOK'
  BY <1>4, CapsKept DEF SetMainStreamOfGroup, capsVars, TypeOK, Caller
<1>5. ASSUME NEW g \in Group, NEW b \in BOOLEAN, SubscribeEvents(g, b)
      PROVE  CapsOK'
  BY <1>5, CapsKept DEF SubscribeEvents, capsVars, TypeOK, Caller
<1>6. ASSUME NEW g \in Group, DestroyStreamGroup(g)
      PROVE  CapsOK'
  BY <1>6 DEF DestroyStreamGroup, TypeOK, CallerOK, MainOK, WithNode, CapsOK,
              Owned, Streams
<1>7. CASE AddStream
  BY <1>7 DEF AddStream, TypeOK, CallerOK, MainOK, WithNode, CapsOK, Owned,
              Streams
<1>8. CASE OwnStream
  <2> DEFINE k == group["main"]
  <2>1. /\ k \in Group
        /\ iTermCapabilities' =
             [iTermCapabilities EXCEPT ![k] = Combined(Streams(k))]
        /\ pStreamList' = pStreamList
        /\ \A h \in Group \ {k} : ~Owned(h)
    BY <1>8 DEF OwnStream, Recalculate, TypeOK, CallerOK, Owned
  <2>2. \A h \in Group : Streams(h)' = Streams(h)
    BY <2>1 DEF Streams
  <2> QED BY <2>1, <2>2 DEF CapsOK, TypeOK
<1>9. CASE JoinStream
  BY <1>9 DEF JoinStream, ReturnMain, TypeOK, CallerOK, MainOK, WithNode,
              CapsOK, Owned, Streams
<1>10. CASE StopRemoved
  BY <1>10 DEF StopRemoved, TypeOK, CallerOK, MainOK, WithNode, CapsOK, Owned,
               Streams
<1>11. CASE DisownRemoved
  BY <1>11 DEF DisownRemoved, Disown, TypeOK, CallerOK, MainOK, WithNode,
               CapsOK, Owned, Streams
<1>12. CASE UnlinkRemoved
  <2>1. PICK k \in Group : k = group["main"] /\ \A h \in Group : ~Owned(h)
    BY <1>12 DEF UnlinkRemoved, TypeOK, CallerOK, Owned
  <2>2. CASE UNCHANGED streamVars
    BY <2>1, <2>2 DEF CapsOK, Streams
  <2>3. ASSUME NEW e \in pStreamList[k],
               pStreamList' = [pStreamList EXCEPT ![k] = @ \ {e}],
               Recalculate(k, {pNode[f] : f \in pStreamList[k] \ {e}})
        PROVE  CapsOK'
    <3>1. Streams(k)' = {pNode[f] : f \in pStreamList[k] \ {e}}
      BY <2>1, <2>3 DEF TypeOK, Streams
    <3>2. iTermCapabilities'[k] = Combined(Streams(k)')
      BY <2>1, <2>3, <3>1 DEF Recalculate, TypeOK
    <3>3. ASSUME NEW h \in Group, h # k
          PROVE  iTermCapabilities'[h] = Combined(Streams(h)')
      BY <2>1, <2>3, <3>3 DEF TypeOK, CapsOK, Streams, Recalculate
    <3> QED BY <3>2, <3>3 DEF CapsOK
  <2> QED BY <1>12, <2>1, <2>2, <2>3 DEF UnlinkRemoved
<1>13. CASE LockGroup
  BY <1>13 DEF LockGroup, TypeOK, CallerOK, MainOK, WithNode, CapsOK, Owned,
               Streams
<1>14. CASE AllStopped
  BY <1>14 DEF AllStopped, TypeOK, CallerOK, MainOK, WithNode, CapsOK, Owned,
               Streams
<1>15. CASE DrainQueue
  BY <1>15, CapsKept DEF DrainQueue, capsVars, TypeOK, Caller
<1>16. CASE FreeGroup
  <2>a. group["main"] \in Group
    BY <1>16 DEF FreeGroup, TypeOK, CallerOK
  <2>b. /\ pc["main"] # "owning" /\ pc'["main"] # "owning"
        /\ iTermCapabilities' =
             [iTermCapabilities EXCEPT ![group["main"]] = {}]
        /\ pStreamList' = [pStreamList EXCEPT ![group["main"]] = {}]
    BY <1>16 DEF FreeGroup, ReturnMain, TypeOK
  <2>c. \A h \in Group : ~Owned(h) /\ ~Owned(h)'
    BY <2>b DEF Owned
  <2>1. PICK k \in Group :
        /\ ~Owned(k)
        /\ iTermCapabilities' = [iTermCapabilities EXCEPT ![k] = {}]
        /\ pStreamList' = [pStreamList EXCEPT ![k] = {}]
        /\ \A h \in Group : Owned(h)' => Owned(h)
        /\ \A h \in Group : ~Owned(h)
    BY <2>a, <2>b, <2>c
  <2>2. Streams(k)' = {}
    BY <2>1 DEF Streams, TypeOK
  <2>3. iTermCapabilities'[k] = Combined(Streams(k)')
    BY <2>1, <2>2, CombinedEmpty DEF TypeOK
  <2>4. ASSUME NEW h \in Group, h # k
        PROVE  iTermCapabilities'[h] = Combined(Streams(h)')
    BY <2>1, <2>4 DEF TypeOK, CapsOK, Streams
  <2> QED BY <2>3, <2>4 DEF CapsOK
<1>17. ASSUME NEW e \in Entry, StopStream(e)
      PROVE  CapsOK'
  BY <1>17, CapsKept DEF StopStream, capsVars, TypeOK, Caller
<1>18. ASSUME NEW e \in Entry, ForgetStream(e)
      PROVE  CapsOK'
  BY <1>18, CapsKept DEF ForgetStream, capsVars, TypeOK, Caller
<1>19. ASSUME NEW t \in Caller, NEW g \in Group, NEW d \in Direction,
              SetDirection(t, g, d)
      PROVE  CapsOK'
  BY <1>19 DEF SetDirection, TypeOK, CallerOK, MainOK, WithNode, CapsOK, Owned,
               Streams
<1>20. ASSUME NEW t \in Caller, NEW e \in Entry, TurnStream(t, e)
      PROVE  CapsOK'
  BY <1>20, CapsKept DEF TurnStream, capsVars, TypeOK, Caller
<1>21. ASSUME NEW t \in Caller, ReturnSetDirection(t)
      PROVE  CapsOK'
  BY <1>21 DEF ReturnSetDirection, TypeOK, CallerOK, MainOK, WithNode, CapsOK,
               Owned, Streams
<1>22. ASSUME NEW g \in Group, GetEvent(g)
      PROVE  CapsOK'
  BY <1>22, CapsKept DEF GetEvent, capsVars, TypeOK, Caller
<1>23. ASSUME NEW n \in Node, ReportPosition(n)
      PROVE  CapsOK'
  BY <1>23, CapsKept DEF ReportPosition, capsVars, TypeOK, Caller
<1>24. ASSUME NEW n \in Node, ReturnPosition(n)
      PROVE  CapsOK'
  BY <1>24, CapsKept DEF ReturnPosition, capsVars, TypeOK, Caller
<1>25. ASSUME NEW n \in Node, ReportEvent(n)
      PROVE  CapsOK'
  BY <1>25, CapsKept DEF ReportEvent, capsVars, TypeOK, Caller
<1>26. ASSUME NEW n \in Node, SendEvent(n)
      PROVE  CapsOK'
  BY <1>26, CapsKept DEF SendEvent, capsVars, TypeOK, Caller
<1>27. CASE UNCHANGED vars
  BY <1>27, CapsKept DEF vars, capsVars
<1> QED BY <1>1, <1>2, <1>3, <1>4, <1>5, <1>6, <1>7, <1>8, <1>9, <1>10,
           <1>11, <1>12, <1>13, <1>14, <1>15, <1>16, <1>17, <1>18, <1>19,
           <1>20, <1>21, <1>22, <1>23, <1>24, <1>25, <1>26, <1>27
        DEF Next, MainCall, MainStep, DirectionStep, Reporter

\* The entries of g that the choice of its main stream has seen.
Considered(g) == IF Owned(g) THEN pStreamList[g] \ {entry} ELSE pStreamList[g]

MainStreamOK ==
  \A g \in Group :
    /\ pMainStream[g] = NoEntry <=> Considered(g) = {}
    /\ pMainStream[g] # NoEntry => pMainStream[g] \in Considered(g)
    /\ Considered(g) # {} /\ g \notin chosen
         => Best(Considered(g), pMainStream[g])

mainVars ==
  <<pStreamList, pMainStream, chosen, pc["main"], group["main"], entry>>

LEMMA MainKept ==
  ASSUME MainStreamOK, UNCHANGED mainVars
  PROVE  MainStreamOK'
BY DEF MainStreamOK, mainVars, Considered, Owned, Best

LEMMA MainNext == ControlInv /\ MainStreamOK /\ [Next]_vars => MainStreamOK'
<1> SUFFICES ASSUME ControlInv, MainStreamOK, [Next]_vars PROVE MainStreamOK'
  OBVIOUS
<1>a. TypeOK /\ CallerOK /\ MainOK /\ DeadOK /\ ReportOK
  BY DEF ControlInv
<1>b. Reporting \subseteq Node
  BY NodeAssumption
<1> USE <1>a, <1>b, Callers, GroupAssumption, NodeAssumption, EntryAssumption
<1> USE DEF groupVars, streamVars, moveVars, callVars, reportVars
<1>1. ASSUME NEW g \in Group, CreateEmptyStreamGroup(g)
      PROVE  MainStreamOK'
  BY <1>1 DEF CreateEmptyStreamGroup, TypeOK, CallerOK, MainOK, WithNode,
              MainStreamOK, Considered, Owned, Best
<1>2. ASSUME NEW g \in Group, NEW e \in Entry, FindStream(g, e)
      PROVE  MainStreamOK'
  BY <1>2 DEF FindStream, TypeOK, CallerOK, MainOK, WithNode, MainStreamOK,
              Considered, Owned, Best
<1>3. ASSUME NEW g \in Group, NEW n \in Node, RemoveStreamFromGroup(g, n)
      PROVE  MainStreamOK'
  BY <1>3 DEF RemoveStreamFromGroup, TypeOK, CallerOK, MainOK, WithNode,
              MainStreamOK, Considered, Owned, Best
<1>4. ASSUME NEW g \in Group, NEW e \in Entry, SetMainStreamOfGroup(g, e)
      PROVE  MainStreamOK'
  BY <1>4 DEF SetMainStreamOfGroup, TypeOK, CallerOK, MainOK, WithNode,
              MainStreamOK, Considered, Owned, Best
<1>5. ASSUME NEW g \in Group, NEW b \in BOOLEAN, SubscribeEvents(g, b)
      PROVE  MainStreamOK'
  BY <1>5, MainKept DEF SubscribeEvents, mainVars, TypeOK, Caller
<1>6. ASSUME NEW g \in Group, DestroyStreamGroup(g)
      PROVE  MainStreamOK'
  BY <1>6 DEF DestroyStreamGroup, TypeOK, CallerOK, MainOK, WithNode,
              MainStreamOK, Considered, Owned, Best
<1>7. CASE AddStream
  BY <1>7 DEF AddStream, TypeOK, CallerOK, MainOK, WithNode, MainStreamOK,
              Considered, Owned, Best
<1>8. CASE OwnStream
  BY <1>8 DEF OwnStream, PreferNew, Rank, TypeOK, CallerOK, MainOK, WithNode,
              MainStreamOK, Considered, Owned, Best
<1>9. CASE JoinStream
  BY <1>9 DEF JoinStream, ReturnMain, TypeOK, CallerOK, MainOK, WithNode,
              MainStreamOK, Considered, Owned, Best
<1>10. CASE StopRemoved
  BY <1>10 DEF StopRemoved, TypeOK, CallerOK, MainOK, WithNode, MainStreamOK,
               Considered, Owned, Best
<1>11. CASE DisownRemoved
  BY <1>11 DEF DisownRemoved, Disown, TypeOK, CallerOK, MainOK, WithNode,
               MainStreamOK, Considered, Owned, Best
<1>12. CASE UnlinkRemoved
  <2>1. PICK k \in Group : k = group["main"]
    BY <1>12 DEF UnlinkRemoved, TypeOK, CallerOK
  <2>2. \A h \in Group : /\ Considered(h) = pStreamList[h]
                         /\ Considered(h)' = pStreamList'[h]
    BY <1>12 DEF UnlinkRemoved, ReturnMain, TypeOK, Considered, Owned
  <2>3. CASE UNCHANGED streamVars
    BY <2>2, <2>3 DEF MainStreamOK, Best
  <2>4. ASSUME NEW e \in pStreamList[k],
               pStreamList' = [pStreamList EXCEPT ![k] = @ \ {e}],
               Reselect(k, e, pStreamList[k] \ {e})
        PROVE  MainStreamOK'
    <3>1. /\ pStreamList'[k] = pStreamList[k] \ {e}
          /\ \A h \in Group \ {k} : pStreamList'[h] = pStreamList[h]
      BY <2>4 DEF TypeOK
    <3>2. CASE pMainStream[k] # e
      BY <2>2, <2>4, <3>1, <3>2 DEF Reselect, MainStreamOK, Best, TypeOK
    <3>3. CASE pMainStream[k] = e
      <4>1. PICK f \in Entry \cup {NoEntry} :
              /\ IF pStreamList'[k] = {} THEN f = NoEntry
                 ELSE Best(pStreamList'[k], f)
              /\ pMainStream' = [pMainStream EXCEPT ![k] = f]
              /\ chosen' = chosen \ {k}
        BY <2>4, <3>1, <3>3 DEF Reselect
      <4>2. /\ pMainStream'[k] = f
            /\ \A h \in Group \ {k} : pMainStream'[h] = pMainStream[h]
        BY <4>1 DEF TypeOK
      <4> QED BY <2>2, <3>1, <4>1, <4>2 DEF MainStreamOK, Best, TypeOK
    <3> QED BY <3>2, <3>3
  <2> QED BY <1>12, <2>1, <2>3, <2>4 DEF UnlinkRemoved
<1>13. CASE LockGroup
  BY <1>13 DEF LockGroup, TypeOK, CallerOK, MainOK, WithNode, MainStreamOK,
               Considered, Owned, Best
<1>14. CASE AllStopped
  BY <1>14 DEF AllStopped, TypeOK, CallerOK, MainOK, WithNode, MainStreamOK,
               Considered, Owned, Best
<1>15. CASE DrainQueue
  BY <1>15, MainKept DEF DrainQueue, mainVars, TypeOK, Caller
<1>16. CASE FreeGroup
  BY <1>16 DEF FreeGroup, ReturnMain, TypeOK, CallerOK, MainOK, WithNode,
               MainStreamOK, Considered, Owned, Best
<1>17. ASSUME NEW e \in Entry, StopStream(e)
      PROVE  MainStreamOK'
  BY <1>17, MainKept DEF StopStream, mainVars, TypeOK, Caller
<1>18. ASSUME NEW e \in Entry, ForgetStream(e)
      PROVE  MainStreamOK'
  BY <1>18, MainKept DEF ForgetStream, mainVars, TypeOK, Caller
<1>19. ASSUME NEW t \in Caller, NEW g \in Group, NEW d \in Direction,
              SetDirection(t, g, d)
      PROVE  MainStreamOK'
  BY <1>19 DEF SetDirection, TypeOK, CallerOK, MainOK, WithNode, MainStreamOK,
               Considered, Owned, Best
<1>20. ASSUME NEW t \in Caller, NEW e \in Entry, TurnStream(t, e)
      PROVE  MainStreamOK'
  BY <1>20, MainKept DEF TurnStream, mainVars, TypeOK, Caller
<1>21. ASSUME NEW t \in Caller, ReturnSetDirection(t)
      PROVE  MainStreamOK'
  BY <1>21 DEF ReturnSetDirection, TypeOK, CallerOK, MainOK, WithNode,
               MainStreamOK, Considered, Owned, Best
<1>22. ASSUME NEW g \in Group, GetEvent(g)
      PROVE  MainStreamOK'
  BY <1>22, MainKept DEF GetEvent, mainVars, TypeOK, Caller
<1>23. ASSUME NEW n \in Node, ReportPosition(n)
      PROVE  MainStreamOK'
  BY <1>23, MainKept DEF ReportPosition, mainVars, TypeOK, Caller
<1>24. ASSUME NEW n \in Node, ReturnPosition(n)
      PROVE  MainStreamOK'
  BY <1>24, MainKept DEF ReturnPosition, mainVars, TypeOK, Caller
<1>25. ASSUME NEW n \in Node, ReportEvent(n)
      PROVE  MainStreamOK'
  BY <1>25, MainKept DEF ReportEvent, mainVars, TypeOK, Caller
<1>26. ASSUME NEW n \in Node, SendEvent(n)
      PROVE  MainStreamOK'
  BY <1>26, MainKept DEF SendEvent, mainVars, TypeOK, Caller
<1>27. CASE UNCHANGED vars
  BY <1>27, MainKept DEF vars, mainVars
<1> QED BY <1>1, <1>2, <1>3, <1>4, <1>5, <1>6, <1>7, <1>8, <1>9, <1>10,
           <1>11, <1>12, <1>13, <1>14, <1>15, <1>16, <1>17, <1>18, <1>19,
           <1>20, <1>21, <1>22, <1>23, <1>24, <1>25, <1>26, <1>27
        DEF Next, MainCall, MainStep, DirectionStep, Reporter

-----------------------------------------------------------------------------
(* The directions.                                                         *)

Follows(n, g) == n \in playing <=> iDirection[g] = "PLAY"

\* The loop of t has not reached an entry of n.
Ahead(t, n) == \E e \in todo[t] : pNode[e] = n

\* While a call has the mutex of a group, the streams it has not reached may
\* still do what the group did before.
DirectionOK ==
  \A n \in Node \ (stray \cup misnamed) :
    /\ pOwnerStreamGroup[n] = NoGroup => n \notin playing
    /\ \A g \in Group : pOwnerStreamGroup[n] = g =>
         /\ MutexFree(g) => Follows(n, g)
         /\ \A t \in Caller : group[t] = g =>
              /\ pc[t] \in {"owning", "removing", "unlinking"}
                   => Follows(n, g)
              /\ pc[t] = "joining" /\ n # node => Follows(n, g)
              /\ pc[t] = "disowning"
                   => IF n = node THEN n \notin playing ELSE Follows(n, g)
              /\ pc[t] = "turning" /\ ~Ahead(t, n) => Follows(n, g)
              /\ pc[t] = "stopping" /\ ~Ahead(t, n) => n \notin playing
              /\ pc[t] = "clearing" => n \notin playing

directionVars ==
  <<pOwnerStreamGroup, iDirection, playing, stray, misnamed, pc, group, node,
    todo, hmtxUseStreamGroup>>

LEMMA DirectionKept ==
  ASSUME DirectionOK, UNCHANGED directionVars
  PROVE  DirectionOK'
BY DEF DirectionOK, directionVars, Follows, Ahead, MutexFree

\* A stream with an entry in a list that is being walked is in that group.
LEMMA WalkedOwned ==
  ASSUME ControlInv, MembersOwned, NEW t \in Caller,
         pc[t] \in {"turning", "stopping", "clearing"}, NEW e \in todo[t]
  PROVE  /\ group[t] \in Group /\ e \in Entry /\ pNode[e] \in Node
         /\ pNode[e] \in misnamed \/ pOwnerStreamGroup[pNode[e]] = group[t]
<1>1. TypeOK /\ CallerOK /\ MainOK
  BY DEF ControlInv
<1>2. /\ group[t] \in Group /\ e \in pStreamList[group[t]]
      /\ hmtxUseStreamGroup[group[t]] = t
      /\ e \in Entry /\ pNode[e] \in Node
  BY <1>1, EntryAssumption DEF TypeOK, CallerOK, Owning
<1>3. CASE t = "main"
  <2>1. e \in Linked(group[t]) /\ ~InTransit(pNode[e], group[t])
    BY <1>2, <1>3 DEF Linked, Freed, InTransit
  <2> QED BY <1>2, <2>1 DEF MembersOwned
<1>4. CASE t # "main"
  <2>1. ~(pc["main"] \in Owning /\ group["main"] = group[t])
    BY <1>1, <1>2, <1>4, Callers DEF CallerOK
  <2>2. e \in Linked(group[t]) /\ ~InTransit(pNode[e], group[t])
    BY <1>2, <2>1 DEF Linked, Freed, InTransit, Owning
  <2> QED BY <1>2, <2>2 DEF MembersOwned
<1> QED BY <1>3, <1>4

LEMMA DirectionNext ==
  ControlInv /\ MembersOwned /\ DirectionOK /\ [Next]_vars => DirectionOK'
<1> SUFFICES ASSUME ControlInv, MembersOwned, DirectionOK, [Next]_vars
             PROVE  DirectionOK'
  OBVIOUS
<1>a. TypeOK /\ CallerOK /\ MainOK /\ DeadOK /\ ReportOK
  BY DEF ControlInv
<1>b. Reporting \subseteq Node
  BY NodeAssumption
<1> USE <1>a, <1>b, Callers, GroupAssumption, NodeAssumption, EntryAssumption
<1> USE DEF groupVars, streamVars, moveVars, callVars, reportVars
<1>1. ASSUME NEW g \in Group, CreateEmptyStreamGroup(g)
      PROVE  DirectionOK'
  BY <1>1 DEF CreateEmptyStreamGroup, MembersOwned, Linked, Freed, TypeOK,
              CallerOK, MainOK, DeadOK, WithNode, Destroying, Owning,
              DirectionOK, Follows, Ahead, MutexFree
<1>2. ASSUME NEW g \in Group, NEW e \in Entry, FindStream(g, e)
      PROVE  DirectionOK'
  BY <1>2 DEF FindStream, TypeOK, CallerOK, MainOK, DeadOK, WithNode,
              Destroying, Owning, DirectionOK, Follows, Ahead, MutexFree
<1>3. ASSUME NEW g \in Group, NEW n \in Node, RemoveStreamFromGroup(g, n)
      PROVE  DirectionOK'
  BY <1>3 DEF RemoveStreamFromGroup, TypeOK, CallerOK, MainOK, DeadOK,
              WithNode, Destroying, Owning, DirectionOK, Follows, Ahead,
              MutexFree
<1>4. ASSUME NEW g \in Group, NEW e \in Entry, SetMainStreamOfGroup(g, e)
      PROVE  DirectionOK'
  BY <1>4, DirectionKept DEF SetMainStreamOfGroup, directionVars, TypeOK,
                             Caller
<1>5. ASSUME NEW g \in Group, NEW b \in BOOLEAN, SubscribeEvents(g, b)
      PROVE  DirectionOK'
  BY <1>5, DirectionKept DEF SubscribeEvents, directionVars, TypeOK, Caller
<1>6. ASSUME NEW g \in Group, DestroyStreamGroup(g)
      PROVE  DirectionOK'
  BY <1>6 DEF DestroyStreamGroup, TypeOK, CallerOK, MainOK, DeadOK, WithNode,
              Destroying, Owning, DirectionOK, Follows, Ahead, MutexFree
<1>7. CASE AddStream
  BY <1>7 DEF AddStream, TypeOK, CallerOK, MainOK, DeadOK, WithNode,
              Destroying, Owning, DirectionOK, Follows, Ahead, MutexFree
<1>8. CASE OwnStream
  BY <1>8 DEF OwnStream, TypeOK, CallerOK, MainOK, DeadOK, WithNode,
              Destroying, Owning, DirectionOK, Follows, Ahead, MutexFree
<1>9. CASE JoinStream
  BY <1>9 DEF JoinStream, ReturnMain, Join, JoinRefused, Tell, MembersOwned,
              Linked, Streams, TypeOK, CallerOK, MainOK, DeadOK, WithNode,
              Destroying, Owning, DirectionOK, Follows, Ahead, MutexFree
<1>10. CASE StopRemoved
  BY <1>10 DEF StopRemoved, Tell, TypeOK, CallerOK, MainOK, DeadOK, WithNode,
               Destroying, Owning, DirectionOK, Follows, Ahead, MutexFree
<1>11. CASE DisownRemoved
  BY <1>11 DEF DisownRemoved, Disown, TypeOK, CallerOK, MainOK, DeadOK,
               WithNode, Destroying, Owning, DirectionOK, Follows, Ahead,
               MutexFree
<1>12. CASE UnlinkRemoved
  BY <1>12 DEF UnlinkRemoved, ReturnMain, TypeOK, CallerOK, MainOK, DeadOK,
               WithNode, Destroying, Owning, DirectionOK, Follows, Ahead,
               MutexFree
<1>13. CASE LockGroup
  BY <1>13 DEF LockGroup, MembersOwned, Linked, Freed, TypeOK, CallerOK,
               MainOK, DeadOK, WithNode, Destroying, Owning, DirectionOK,
               Follows, Ahead, MutexFree
<1>14. CASE AllStopped
  BY <1>14 DEF AllStopped, TypeOK, CallerOK, MainOK, DeadOK, WithNode,
               Destroying, Owning, DirectionOK, Follows, Ahead, MutexFree
<1>15. CASE DrainQueue
  BY <1>15, DirectionKept DEF DrainQueue, directionVars, TypeOK, Caller
<1>16. CASE FreeGroup
  <2>1. group["main"] \in Group /\ Linked(group["main"]) = {}
    BY <1>16 DEF FreeGroup, TypeOK, CallerOK, Linked, Freed
  <2>2. \A n \in Node : pOwnerStreamGroup[n] # group["main"]
    BY <2>1 DEF MembersOwned
  <2> QED BY <1>16, <2>1, <2>2 DEF FreeGroup, ReturnMain, TypeOK, CallerOK,
        MainOK, DeadOK, WithNode, Destroying, Owning, DirectionOK, Follows,
        Ahead, MutexFree
<1>17. ASSUME NEW e \in Entry, StopStream(e)
      PROVE  DirectionOK'
  BY <1>17, WalkedOwned DEF StopStream, Tell, TypeOK, CallerOK, MainOK, DeadOK,
                            WithNode, Destroying, Owning, DirectionOK, Follows,
                            Ahead, MutexFree
<1>18. ASSUME NEW e \in Entry, ForgetStream(e)
      PROVE  DirectionOK'
  BY <1>18, WalkedOwned DEF ForgetStream, Disown, TypeOK, CallerOK, MainOK,
                            DeadOK, WithNode, Destroying, Owning, DirectionOK,
                            Follows, Ahead, MutexFree
<1>19. ASSUME NEW t \in Caller, NEW g \in Group, NEW d \in Direction,
              SetDirection(t, g, d)
      PROVE  DirectionOK'
  BY <1>19 DEF SetDirection, MembersOwned, Linked, Freed, TypeOK, CallerOK,
               MainOK, DeadOK, WithNode, Destroying, Owning, DirectionOK,
               Follows, Ahead, MutexFree
<1>20. ASSUME NEW t \in Caller, NEW e \in Entry, TurnStream(t, e)
      PROVE  DirectionOK'
  BY <1>20, WalkedOwned DEF TurnStream, Tell, TypeOK, CallerOK, MainOK, DeadOK,
                            WithNode, Destroying, Owning, DirectionOK, Follows,
                            Ahead, MutexFree
<1>21. ASSUME NEW t \in Caller, ReturnSetDirection(t)
      PROVE  DirectionOK'
  BY <1>21 DEF ReturnSetDirection, TypeOK, CallerOK, MainOK, DeadOK, WithNode,
               Destroying, Owning, DirectionOK, Follows, Ahead, MutexFree
<1>22. ASSUME NEW g \in Group, GetEvent(g)
      PROVE  DirectionOK'
  BY <1>22, DirectionKept DEF GetEvent, directionVars, TypeOK, Caller
<1>23. ASSUME NEW n \in Node, ReportPosition(n)
      PROVE  DirectionOK'
  BY <1>23, DirectionKept DEF ReportPosition, directionVars, TypeOK, Caller
<1>24. ASSUME NEW n \in Node, ReturnPosition(n)
      PROVE  DirectionOK'
  BY <1>24, DirectionKept DEF ReturnPosition, directionVars, TypeOK, Caller
<1>25. ASSUME NEW n \in Node, ReportEvent(n)
      PROVE  DirectionOK'
  BY <1>25, DirectionKept DEF ReportEvent, directionVars, TypeOK, Caller
<1>26. ASSUME NEW n \in Node, SendEvent(n)
      PROVE  DirectionOK'
  BY <1>26, DirectionKept DEF SendEvent, directionVars, TypeOK, Caller
<1>27. CASE UNCHANGED vars
  BY <1>27, DirectionKept DEF vars, directionVars
<1> QED BY <1>1, <1>2, <1>3, <1>4, <1>5, <1>6, <1>7, <1>8, <1>9, <1>10,
           <1>11, <1>12, <1>13, <1>14, <1>15, <1>16, <1>17, <1>18, <1>19,
           <1>20, <1>21, <1>22, <1>23, <1>24, <1>25, <1>26, <1>27
        DEF Next, MainCall, MainStep, DirectionStep, Reporter

-----------------------------------------------------------------------------
(* The targets of events.                                                  *)

LEMMA TargetInit == Init => Targets!Init
BY DEF Init, Targets!Init

LEMMA TargetStep ==
  ControlInv /\ MembersOwned /\ [Next]_vars => [Targets!Next]_(Targets!vars)
<1> SUFFICES ASSUME ControlInv, MembersOwned, [Next]_vars
             PROVE  [Targets!Next]_(Targets!vars)
  OBVIOUS
<1>a. TypeOK /\ CallerOK /\ MainOK /\ DeadOK /\ ReportOK
  BY DEF ControlInv
<1>b. Reporting \subseteq Node
  BY NodeAssumption
<1> USE <1>a, <1>b, Callers, GroupAssumption, NodeAssumption, EntryAssumption
<1> USE DEF groupVars, streamVars, moveVars, callVars, reportVars
<1> USE DEF Targets!vars, Targets!Next, FieldFree
<1>1. ASSUME NEW g \in Group, CreateEmptyStreamGroup(g)
      PROVE  [Targets!Next]_(Targets!vars)
  BY <1>1 DEF CreateEmptyStreamGroup, Targets!Open
<1>2. ASSUME NEW g \in Group, NEW e \in Entry, FindStream(g, e)
      PROVE  [Targets!Next]_(Targets!vars)
  BY <1>2 DEF FindStream
<1>3. ASSUME NEW g \in Group, NEW n \in Node, RemoveStreamFromGroup(g, n)
      PROVE  [Targets!Next]_(Targets!vars)
  BY <1>3 DEF RemoveStreamFromGroup
<1>4. ASSUME NEW g \in Group, NEW e \in Entry, SetMainStreamOfGroup(g, e)
      PROVE  [Targets!Next]_(Targets!vars)
  BY <1>4 DEF SetMainStreamOfGroup
<1>5. ASSUME NEW g \in Group, NEW b \in BOOLEAN, SubscribeEvents(g, b)
      PROVE  [Targets!Next]_(Targets!vars)
  BY <1>5 DEF SubscribeEvents
<1>6. ASSUME NEW g \in Group, DestroyStreamGroup(g)
      PROVE  [Targets!Next]_(Targets!vars)
  BY <1>6 DEF DestroyStreamGroup
<1>7. CASE AddStream
  BY <1>7 DEF AddStream
<1>8. CASE OwnStream
  <2>1. /\ node \in Node /\ group["main"] \in Group
        /\ group["main"] \in alive /\ pOwnerStreamGroup[node] = NoGroup
    BY <1>8 DEF OwnStream, MainOK, TypeOK, CallerOK, WithNode
  <2>2. Targets!Attach(node, group["main"])
    BY <1>8, <2>1 DEF OwnStream, Targets!Attach
  <2> QED BY <2>1, <2>2
<1>9. CASE JoinStream
  BY <1>9 DEF JoinStream
<1>10. CASE StopRemoved
  BY <1>10 DEF StopRemoved
<1>11. CASE DisownRemoved
  <2>1. node \in Node
    BY <1>11 DEF DisownRemoved, MainOK, WithNode
  <2>2. Targets!Detach(node)
    BY <1>11, <2>1 DEF DisownRemoved, Disown, Targets!Detach
  <2> QED BY <2>1, <2>2
<1>12. CASE UnlinkRemoved
  BY <1>12 DEF UnlinkRemoved
<1>13. CASE LockGroup
  BY <1>13 DEF LockGroup
<1>14. CASE AllStopped
  BY <1>14 DEF AllStopped
<1>15. CASE DrainQueue
  BY <1>15 DEF DrainQueue
<1>16. CASE FreeGroup
  <2>1. group["main"] \in Group /\ Linked(group["main"]) = {}
    BY <1>16 DEF FreeGroup, TypeOK, CallerOK, Linked, Freed
  <2>2. \A n \in Node : pOwnerStreamGroup[n] # group["main"]
    BY <2>1 DEF MembersOwned
  <2> QED BY <1>16, <2>1, <2>2
          DEF FreeGroup, Targets!Close, TypeOK, ReportOK
<1>17. ASSUME NEW e \in Entry, StopStream(e)
      PROVE  [Targets!Next]_(Targets!vars)
  BY <1>17 DEF StopStream
<1>18. ASSUME NEW e \in Entry, ForgetStream(e)
      PROVE  [Targets!Next]_(Targets!vars)
  <2>1. pNode[e] \in Node
    OBVIOUS
  <2>2. Targets!Detach(pNode[e])
    BY <1>18, <2>1 DEF ForgetStream, Disown, Targets!Detach
  <2> QED BY <2>1, <2>2
<1>19. ASSUME NEW t \in Caller, NEW g \in Group, NEW d \in Direction,
              SetDirection(t, g, d)
      PROVE  [Targets!Next]_(Targets!vars)
  BY <1>19 DEF SetDirection
<1>20. ASSUME NEW t \in Caller, NEW e \in Entry, TurnStream(t, e)
      PROVE  [Targets!Next]_(Targets!vars)
  BY <1>20 DEF TurnStream
<1>21. ASSUME NEW t \in Caller, ReturnSetDirection(t)
      PROVE  [Targets!Next]_(Targets!vars)
  BY <1>21 DEF ReturnSetDirection
<1>22. ASSUME NEW g \in Group, GetEvent(g)
      PROVE  [Targets!Next]_(Targets!vars)
  BY <1>22 DEF GetEvent
<1>23. ASSUME NEW n \in Node, ReportPosition(n)
      PROVE  [Targets!Next]_(Targets!vars)
  BY <1>23 DEF ReportPosition, TypeOK
<1>24. ASSUME NEW n \in Node, ReturnPosition(n)
      PROVE  [Targets!Next]_(Targets!vars)
  BY <1>24 DEF ReturnPosition, TypeOK
<1>25. ASSUME NEW n \in Node, ReportEvent(n)
      PROVE  [Targets!Next]_(Targets!vars)
  BY <1>25 DEF ReportEvent, Targets!StartReport, TypeOK
<1>26. ASSUME NEW n \in Node, SendEvent(n)
      PROVE  [Targets!Next]_(Targets!vars)
  <2> Targets!EndReport(n)
    <3>1. /\ report' = [report EXCEPT ![n] = "idle"]
          /\ seen' = [seen EXCEPT ![n] = NoGroup]
          /\ UNCHANGED <<alive, pOwnerStreamGroup>>
      BY <1>26 DEF SendEvent
    <3> QED BY <3>1 DEF Targets!EndReport, TypeOK
  <2> QED OBVIOUS
<1>27. CASE UNCHANGED vars
  BY <1>27 DEF vars
<1> HIDE DEF Targets!vars, Targets!Next
<1> QED BY <1>1, <1>2, <1>3, <1>4, <1>5, <1>6, <1>7, <1>8, <1>9, <1>10,
           <1>11, <1>12, <1>13, <1>14, <1>15, <1>16, <1>17, <1>18, <1>19,
           <1>20, <1>21, <1>22, <1>23, <1>24, <1>25, <1>26, <1>27
        DEF Next, MainCall, MainStep, DirectionStep, Reporter

-----------------------------------------------------------------------------

LEMMA ControlCorrect == Spec => []ControlInv
BY ControlInit, ControlNext, PTL DEF Spec

\* The variables stay within their types, the length of an event queue within
\* its limit (MMIOCreateEmptyStreamGroup(), MMIOPsReportEvent()).
THEOREM TypeCorrect == Spec => []TypeOK
BY ControlCorrect, PTL DEF ControlInv

\* A node is always in the list of the group its field names.  A stream for
\* which no other group than its own was named is in no other list and in none
\* twice, in every state of every call but between the two writes by which it
\* joins or leaves (MMIOAddStreamsToGroup(), MMIORemoveStreamFromGroup(), which
\* does not look which group the stream is in, MMIODestroyStreamGroup()).
THEOREM MembersOwnedCorrect == Spec => []MembersOwned
<1>1. Init => MembersOwned
  BY GroupAssumption
     DEF Init, MembersOwned, Linked, Freed
<1> QED BY <1>1, ControlCorrect, MembersNext, PTL DEF Spec

\* The main stream is the best of the group's streams unless the application
\* chose another, whenever nobody has the mutex of the group
\* (MMIOAddStreamsToGroup(), MMIORemoveStreamFromGroup(),
\* MMIOSetMainStreamOfGroup()).
THEOREM MainIsBestCorrect == Spec => []MainIsBest
<1>1. Init => MainStreamOK
  BY DEF Init, MainStreamOK, Considered, Owned
<1>2. ControlInv /\ MainStreamOK => MainIsBest
  <2> SUFFICES ASSUME ControlInv, MainStreamOK, NEW g \in Group, MutexFree(g)
               PROVE  /\ pMainStream[g] = NoEntry <=> pStreamList[g] = {}
                      /\ pMainStream[g] # NoEntry
                           => pMainStream[g] \in pStreamList[g]
                      /\ pStreamList[g] # {} /\ g \notin chosen
                           => Best(pStreamList[g], pMainStream[g])
    BY DEF MainIsBest
  <2>1. ~Owned(g)
    BY Callers DEF ControlInv, CallerOK, Owning, MutexFree, Owned
  <2>2. Considered(g) = pStreamList[g]
    BY <2>1 DEF Considered
  <2> QED BY <2>2 DEF MainStreamOK
<1> QED BY <1>1, <1>2, ControlCorrect, MainNext, PTL DEF Spec

\* A group promises what all of its streams support, whenever nobody has its
\* mutex (MMIOAddStreamsToGroup(), MMIORemoveStreamFromGroup()).
THEOREM CapsCombinedCorrect == Spec => []CapsCombined
<1>1. Init => CapsOK
  <2> SUFFICES ASSUME Init, NEW g \in Group
               PROVE  iTermCapabilities[g] = Combined(Streams(g))
    BY DEF CapsOK
  <2>1. Streams(g) = {}
    BY DEF Init, Streams
  <2> QED BY <2>1, CombinedEmpty DEF Init
<1>2. ControlInv /\ CapsOK => CapsCombined
  BY Callers DEF ControlInv, TypeOK, CallerOK, Owning, MutexFree, CapsCombined,
                 CapsOK, Owned
<1> QED BY <1>1, <1>2, ControlCorrect, CapsNext, PTL DEF Spec

\* While nobody is changing a group, its streams do what the group does,
\* except those that refused and those for which another group was named; a
\* stream in no group does not play (MMIOSetDirection(),
\* MMIOAddStreamsToGroup(), MMIORemoveStreamFromGroup()).
THEOREM DirectionsAgreeCorrect == Spec => []DirectionsAgree
<1>1. Init => DirectionOK
  BY GroupAssumption DEF Init, DirectionOK
<1>2. ControlInv /\ DirectionOK => DirectionsAgree
  BY GroupAssumption
     DEF ControlInv, TypeOK, DirectionOK, DirectionsAgree, Follows
<1>3. Spec => []MembersOwned
  BY MembersOwnedCorrect
<1> QED BY <1>1, <1>2, <1>3, ControlCorrect, DirectionNext, PTL DEF Spec

\* However many groups and terminators there are, no threads wait for each
\* other's mutexes: whoever owns the mutex of a node's field waits for nothing,
\* and whoever waits for the mutex of a group owns none (MMIOSetDirection(),
\* MMIOAddStreamsToGroup(), MMIODestroyStreamGroup(), MMIOPsReportPosition(),
\* MMIOPsReportEvent()).
THEOREM NobodyStuckCorrect == Spec => []NobodyStuck
<1>1. ControlInv => NobodyStuck
  <2> SUFFICES ASSUME ControlInv,
                      NEW C \in SUBSET Caller, NEW N \in SUBSET Node,
                      \A t \in C : CallerStuck(t, C, N),
                      \A n \in N : ReporterStuck(n, C)
               PROVE  C = {} /\ N = {}
    BY DEF NobodyStuck
  <2>1. ASSUME NEW g \in Group, ~MutexFree(g)
        PROVE  /\ hmtxUseStreamGroup[g] \in Caller
               /\ pc[hmtxUseStreamGroup[g]] \in Owning
    BY <2>1 DEF ControlInv, TypeOK, CallerOK, MutexFree
  <2>2. ASSUME NEW t \in C, pc[t] \in Owning
        PROVE  FALSE
    <3>1. PICK n \in N : report[n] = "event"
      BY <2>2 DEF CallerStuck, FieldFree, Owning
    <3> QED BY <3>1 DEF ReporterStuck
  <2>3. ASSUME NEW g \in Group, ~MutexFree(g)
        PROVE  /\ hmtxUseStreamGroup[g] \notin C
               /\ pc[hmtxUseStreamGroup[g]] # "idle"
    BY <2>1, <2>2, <2>3 DEF Owning
  <2>4. C = {}
    <3> SUFFICES ASSUME NEW t \in C PROVE FALSE
      OBVIOUS
    <3>1. pc[t] \in {"adding", "locking"} /\ ~MutexFree(group[t])
      BY <2>2 DEF CallerStuck, Owning
    <3>2. group[t] \in Group
      BY <3>1 DEF ControlInv, TypeOK, CallerOK
    <3> QED BY <2>2, <2>3, <3>1, <3>2 DEF CallerStuck, Owning
  <2>5. N = {}
    BY <2>3 DEF ReporterStuck, ControlInv, TypeOK
  <2> QED BY <2>4, <2>5
<1> QED BY <1>1, ControlCorrect, PTL

\* An event is sent to a group that exists, whenever terminators report while
\* the group is being destroyed (MMIOPsReportEvent(),
\* MMIODestroyStreamGroup()).
THEOREM TargetCorrect == Spec => TargetSpec
BY ControlCorrect, MembersOwnedCorrect, TargetInit, TargetStep, PTL
   DEF Spec, TargetSpec, Targets!Spec
=============================================================================
