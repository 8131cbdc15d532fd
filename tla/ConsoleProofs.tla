----------------------------- MODULE ConsoleProofs -----------------------------
(***************************************************************************)
(* What the console promises, for every value of the constants: the tool   *)
(* client (ToolClient), arming the receiver (Arming), the setup pages      *)
(* (Onboarding).  The theorems are about ConsoleSpec, as in CommandProofs. *)
(***************************************************************************)
EXTENDS MCConsole, FiniteSetTheorems, TLAPS

-----------------------------------------------------------------------------
(* The tool client.  That a request has a child to be written to and a     *)
(* number in Ids is a matter of counting: a child is spawned when there is *)
(* none, and there is none after a stop or an exit; a request is numbered  *)
(* when a call sends it or a promise begins.                               *)

States == {"unborn", "running", "dead", "gone"}
InState(p, s) == {k \in T!Children : p[k] = s}

\* the calls that have been written to a child
Requested == {c \in Calls : call[c].to # None}

ChildrenSuffice ==
  /\ stops \in 0..MaxStops /\ crashes \in 0..MaxCrashes
  /\ child # None => process[child] # "unborn"
  /\ Cardinality(InState(process, "unborn")) + stops + Cardinality(InState(process, "gone"))
       + (IF child = None THEN 0 ELSE 1) >= 1 + 2 * MaxStops + MaxCrashes
  /\ Cardinality(InState(process, "dead")) + Cardinality(InState(process, "gone")) <= crashes + stops

NumbersSuffice ==
  /\ \A c \in Calls : call[c].pc \in {"idle", "awaiting"} => call[c].to = None
  /\ nextId <= 1 + Cardinality(Requested) + stops + (IF ready = None THEN 0 ELSE 1)

\* the resolver of a call is kept for an answer of the child the call was written to
ResolversMatch ==
  /\ \A i \in T!Ids : i >= nextId =>
       waiting[i] = None /\ \A k \in T!Children : <<i, k>> \notin asked \cup written
  /\ \A i \in T!Ids : waiting[i] \in Calls =>
       /\ call[waiting[i]].pc \notin {"idle", "awaiting"}
       /\ \A k \in T!Children : <<i, k>> \in asked \cup written => call[waiting[i]].to = k

ToolsInv ==
  /\ T!TypeOK /\ ChildrenSuffice /\ NumbersSuffice
  /\ ResolversMatch /\ T!AnswerIsOwn

(* The instance counts as the library does. *)
LEMMA SameCount ==
  /\ \A Z : T!Cardinality(Z) = Cardinality(Z)
  /\ \A Z : T!IsFiniteSet(Z) = IsFiniteSet(Z)
BY DEF Cardinality, T!Cardinality, IsFiniteSet, T!IsFiniteSet

LEMMA ToolNumbers ==
  /\ MaxStops \in Nat /\ MaxCrashes \in Nat
  /\ IsFiniteSet(Calls) /\ Cardinality(Calls) \in Nat
  /\ None \notin Int /\ None \notin Calls /\ Calls \cap Int = {}
  /\ T!Ids = 1..(Cardinality(Calls) + 1 + MaxStops)
  /\ T!Cardinality(T!Ids) = Cardinality(Calls) + 1 + MaxStops
  /\ IsFiniteSet(T!Children)
  /\ Cardinality(T!Children) = 1 + 2 * MaxStops + MaxCrashes
<1>1. /\ MaxStops \in Nat /\ MaxCrashes \in Nat /\ IsFiniteSet(Calls)
      /\ None \notin Int /\ None \notin Calls /\ Calls \cap Int = {}
  BY ConsoleAssumption, SameCount DEF ConsoleAssumption, T!ToolClientAssumption
<1>2. Cardinality(Calls) \in Nat
  BY <1>1, FS_CardinalityType
<1>3. T!Ids = 1..(Cardinality(Calls) + 1 + MaxStops)
  BY SameCount DEF T!Ids
<1>4. T!Cardinality(T!Ids) = Cardinality(Calls) + 1 + MaxStops
  BY <1>1, <1>2, <1>3, FS_Interval, SameCount
<1>5. IsFiniteSet(T!Children) /\ Cardinality(T!Children) = 1 + 2 * MaxStops + MaxCrashes
  BY <1>1, FS_Interval DEF T!Children
<1> QED BY <1>1, <1>2, <1>3, <1>4, <1>5

LEMMA InStateFinite ==
  ASSUME NEW p, NEW s
  PROVE  IsFiniteSet(InState(p, s)) /\ Cardinality(InState(p, s)) \in Nat
<1>1. InState(p, s) \subseteq T!Children
  BY DEF InState
<1> QED BY <1>1, ToolNumbers, FS_Subset, FS_CardinalityType

(* A child that changes its state leaves the others' counts alone. *)
LEMMA MoveCounts ==
  ASSUME process \in [T!Children -> States], NEW k \in T!Children, NEW t \in States,
         process[k] # t, process' = [process EXCEPT ![k] = t]
  PROVE  /\ Cardinality(InState(process', t)) = Cardinality(InState(process, t)) + 1
         /\ Cardinality(InState(process', process[k])) = Cardinality(InState(process, process[k])) - 1
         /\ \A s \in States : s # t /\ s # process[k] => InState(process', s) = InState(process, s)
<1>1. InState(process', t) = InState(process, t) \cup {k} /\ k \notin InState(process, t)
  BY DEF InState
<1>2. InState(process', process[k]) = InState(process, process[k]) \ {k} /\ k \in InState(process, process[k])
  BY DEF InState
<1>3. \A s \in States : s # t /\ s # process[k] => InState(process', s) = InState(process, s)
  BY DEF InState
<1>4. Cardinality(InState(process', t)) = Cardinality(InState(process, t)) + 1
  BY <1>1, InStateFinite, FS_AddElement
<1>5. Cardinality(InState(process', process[k])) = Cardinality(InState(process, process[k])) - 1
  BY <1>2, InStateFinite, FS_RemoveElement
<1> QED BY <1>3, <1>4, <1>5

LEMMA ToolsStart == T!Init => ToolsInv
<1> SUFFICES ASSUME T!Init PROVE ToolsInv
  OBVIOUS
<1> USE ToolNumbers
<1>1. T!TypeOK
  <2>1. nextId \in 1..(T!Cardinality(T!Ids) + 1)
    BY DEF T!Init
  <2> QED BY <2>1 DEF T!Init, T!TypeOK, T!Idle
<1>2. ChildrenSuffice
  <2>1. /\ InState(process, "unborn") = T!Children
        /\ InState(process, "gone") = {} /\ InState(process, "dead") = {}
    BY DEF T!Init, InState
  <2>2. /\ Cardinality(InState(process, "unborn")) = 1 + 2 * MaxStops + MaxCrashes
        /\ Cardinality(InState(process, "gone")) = 0 /\ Cardinality(InState(process, "dead")) = 0
    BY <2>1, FS_EmptySet
  <2>3. child = None /\ stops = 0 /\ crashes = 0
    BY DEF T!Init
  <2> QED BY <2>2, <2>3 DEF ChildrenSuffice
<1>3. NumbersSuffice
  <2>1. Requested = {}
    BY DEF T!Init, T!Idle, Requested
  <2> QED BY <2>1, FS_EmptySet DEF T!Init, T!Idle, NumbersSuffice
<1>4. ResolversMatch /\ T!AnswerIsOwn
  BY DEF T!Init, T!Idle, ResolversMatch, T!AnswerIsOwn
<1> QED BY <1>1, <1>2, <1>3, <1>4 DEF ToolsInv

(* Whoever a request is written to is a child, a new one when there was none. *)
LEMMA ReceiverIsChild ==
  ASSUME ToolsInv
  PROVE  /\ T!Receiver \in T!Children
         /\ child = None => process[T!Receiver] = "unborn"
         /\ child # None => T!Receiver = child /\ process[T!Receiver] # "unborn"
<1> USE ToolNumbers
<1>1. CASE child = None
  <2>1. InState(process, "unborn") # {}
    <3>1. Cardinality(InState(process, "unborn")) # 0
      <4> DEFINE unborn == Cardinality(InState(process, "unborn"))
                 gone == Cardinality(InState(process, "gone"))
                 dead == Cardinality(InState(process, "dead"))
      <4>1. unborn \in Nat /\ gone \in Nat /\ dead \in Nat
        BY InStateFinite
      <4>2. /\ stops \in 0..MaxStops /\ crashes \in 0..MaxCrashes
            /\ unborn + stops + gone + 0 >= 1 + 2 * MaxStops + MaxCrashes
            /\ dead + gone <= crashes + stops
        BY <1>1 DEF ToolsInv, ChildrenSuffice
      <4> HIDE DEF unborn, gone, dead
      <4>3. unborn # 0
        BY ONLY <4>1, <4>2, ToolNumbers
      <4> QED BY <4>3 DEF unborn
    <3>2. Cardinality({}) = 0
      BY FS_EmptySet
    <3> QED BY <3>1, <3>2
  <2>2. T!Receiver \in T!Unborn
    BY <1>1, <2>1 DEF T!Receiver, T!Unborn, InState
  <2> QED BY <1>1, <2>2 DEF T!Unborn
<1>2. CASE child # None
  BY <1>2 DEF T!Receiver, ToolsInv, ChildrenSuffice, T!TypeOK
<1> QED BY <1>1, <1>2

(* What send() leaves behind. *)
LEMMA SendKeeps ==
  ASSUME ToolsInv, NEW from \in Calls \cup T!Promises, nextId \in T!Ids, T!Send(from),
         UNCHANGED <<stops, crashes>>
  PROVE  /\ ChildrenSuffice'
         /\ child' = T!Receiver /\ T!Receiver \in T!Children
         /\ process' \in [T!Children -> States]
         /\ nextId' = nextId + 1 /\ waiting' = [waiting EXCEPT ![nextId] = from]
         /\ asked' \in {asked, asked \cup {<<nextId, T!Receiver>>}}
         /\ alive' \in BOOLEAN
<1> USE ToolNumbers
<1>1. /\ child' = T!Receiver /\ nextId' = nextId + 1
      /\ waiting' = [waiting EXCEPT ![nextId] = from]
      /\ process' = [process EXCEPT ![T!Receiver] = IF @ = "unborn" THEN "running" ELSE @]
      /\ asked' \in {asked, asked \cup {<<nextId, T!Receiver>>}}
      /\ alive' \in BOOLEAN
  BY DEF T!Send, T!Number, ToolsInv, T!TypeOK
<1>2. process \in [T!Children -> States] /\ child \in T!Children \cup {None}
  BY DEF ToolsInv, T!TypeOK, States
<1>3. None \notin T!Children
  BY DEF T!Children
<1>4. CASE child = None
  <2> DEFINE r == T!Receiver
  <2>1. process' = [process EXCEPT ![r] = "running"] /\ process[r] = "unborn" /\ r \in T!Children
    BY <1>1, <1>2, <1>4, ReceiverIsChild
  <2>2. process' \in [T!Children -> States] /\ "running" \in States
    BY <1>2, <2>1 DEF States
  <2>3. /\ Cardinality(InState(process', "unborn")) = Cardinality(InState(process, "unborn")) - 1
        /\ InState(process', "gone") = InState(process, "gone")
        /\ InState(process', "dead") = InState(process, "dead")
    <3>1. /\ Cardinality(InState(process', process[r])) = Cardinality(InState(process, process[r])) - 1
          /\ \A s \in States : s # "running" /\ s # process[r] => InState(process', s) = InState(process, s)
      BY <1>2, <2>1, <2>2, MoveCounts
    <3> QED BY <2>1, <3>1 DEF States
  <2>4. child' = r /\ child' # None /\ process'[child'] # "unborn"
    BY <1>1, <1>2, <1>3, <2>1
  <2>5. /\ Cardinality(InState(process, "unborn")) + stops + Cardinality(InState(process, "gone"))
             >= 1 + 2 * MaxStops + MaxCrashes
        /\ Cardinality(InState(process, "dead")) + Cardinality(InState(process, "gone"))
             <= crashes + stops
        /\ stops \in 0..MaxStops /\ crashes \in 0..MaxCrashes
    BY <1>4, InStateFinite DEF ToolsInv, ChildrenSuffice
  <2>6. ChildrenSuffice'
    BY <2>3, <2>4, <2>5, InStateFinite, SMTT(30) DEF ChildrenSuffice
  <2> QED BY <1>1, <2>1, <2>2, <2>6
<1>5. CASE child # None
  <2>1. T!Receiver = child /\ child \in T!Children /\ process[child] # "unborn"
    BY <1>2, <1>5, ReceiverIsChild
  <2>2. process' = process /\ child' = child
    BY <1>1, <1>2, <2>1
  <2>3. ChildrenSuffice'
    BY <2>2 DEF ToolsInv, ChildrenSuffice, InState
  <2> QED BY <1>1, <1>2, <2>1, <2>2, <2>3
<1> QED BY <1>4, <1>5

(* There is a number left for a call that is to be written, and for a promise that
   is to begin. *)
LEMMA NumberIsLeft ==
  ASSUME ToolsInv, ready = None \/ \E c \in Calls : call[c].to = None
  PROVE  nextId \in T!Ids
<1> USE ToolNumbers
<1>1. nextId \in Nat /\ nextId >= 1 /\ stops <= MaxStops /\ stops \in Nat
  BY DEF ToolsInv, T!TypeOK, ChildrenSuffice
<1>2. Requested \subseteq Calls /\ IsFiniteSet(Requested) /\ Cardinality(Requested) \in Nat
      /\ Cardinality(Requested) <= Cardinality(Calls)
  <2>1. Requested \subseteq Calls
    BY DEF Requested
  <2> QED BY <2>1, FS_Subset, FS_CardinalityType
<1>3. nextId <= 1 + Cardinality(Requested) + stops + (IF ready = None THEN 0 ELSE 1)
  BY DEF ToolsInv, NumbersSuffice
<1>4. CASE ready = None
  BY <1>1, <1>2, <1>3, <1>4
<1>5. ASSUME NEW c \in Calls, call[c].to = None PROVE nextId \in T!Ids
  <2>1. Requested # Calls
    BY <1>5 DEF Requested
  <2>2. Cardinality(Requested) # Cardinality(Calls)
    BY <1>2, <2>1, FS_Subset
  <2> QED BY <1>1, <1>2, <1>3, <2>2
<1> QED BY <1>4, <1>5

\* the type of call, named for the steps that change nothing else of it
CallRecords ==
  [pc : {"idle", "awaiting", "sent", "answered", "failed"},
   awaits : T!Promises \cup {None},
   to : T!Children \cup {None}, by : T!Children \cup {None}]

LEMMA ToolsTypes ==
  ASSUME ToolsInv
  PROVE  /\ child \in T!Children \cup {None}
         /\ process \in [T!Children -> States]
         /\ torn \subseteq T!Children /\ {cut, alive} \subseteq BOOLEAN
         /\ ready \in T!Promises \cup {None}
         /\ promise \in [T!Promises -> {"none", "pending", "resolved", "rejected"}]
         /\ nextId \in Nat /\ nextId >= 1
         /\ waiting \in [T!Ids -> Calls \cup T!Promises \cup {None}]
         /\ asked \subseteq T!Ids \X T!Children /\ written \subseteq T!Ids \X T!Children
         /\ call \in [Calls -> CallRecords]
         /\ stops \in 0..MaxStops /\ crashes \in 0..MaxCrashes
         /\ None \notin T!Children /\ None \notin T!Promises
         /\ \A c \in Calls : c \notin T!Promises
<1>1. None \notin T!Children /\ None \notin T!Promises /\ \A c \in Calls : c \notin T!Promises
  BY ToolNumbers DEF T!Children, T!Promises
<1>2. nextId \in Nat /\ nextId >= 1 /\ stops \in 0..MaxStops /\ crashes \in 0..MaxCrashes
  BY ToolNumbers DEF ToolsInv, T!TypeOK, ChildrenSuffice
<1> QED BY <1>1, <1>2 DEF ToolsInv, T!TypeOK, States, CallRecords

LEMMA RequestedCount ==
  /\ Requested \subseteq Calls /\ IsFiniteSet(Requested)
  /\ Cardinality(Requested) \in Nat /\ Cardinality(Requested) <= Cardinality(Calls)
<1>1. Requested \subseteq Calls
  BY DEF Requested
<1> QED BY <1>1, ToolNumbers, FS_Subset, FS_CardinalityType

LEMMA StepCall ==
  ASSUME ToolsInv, NEW c \in Calls, T!Call(c)
  PROVE  ToolsInv'
<1> USE ToolNumbers, ToolsTypes
<1>1. /\ call[c].pc = "idle" /\ call[c].to = None
      /\ UNCHANGED <<torn, cut, written, crashes, stops>>
  BY DEF T!Call, ToolsInv, NumbersSuffice
<1>2. stops + 1 \in T!Promises /\ stops + 1 \notin Calls
  BY DEF T!Promises
<1>3. /\ call' \in [Calls -> CallRecords]
      /\ \A d \in Calls : call'[d].to = call[d].to /\ call'[d].by = call[d].by
      /\ call'[c].pc = "awaiting" /\ \A d \in Calls \ {c} : call'[d] = call[d]
  <2>1. PICK n \in T!Promises : call' = [call EXCEPT ![c].pc = "awaiting", ![c].awaits = n]
    BY <1>2 DEF T!Call
  <2>2. call' \in [Calls -> CallRecords]
    <3>1. call \in [Calls -> CallRecords]
      OBVIOUS
    <3> QED BY ONLY <2>1, <3>1 DEF CallRecords
  <2>3. /\ \A d \in Calls : call'[d].to = call[d].to /\ call'[d].by = call[d].by
        /\ call'[c].pc = "awaiting" /\ \A d \in Calls \ {c} : call'[d] = call[d]
    BY <2>1 DEF CallRecords
  <2> QED BY <2>2, <2>3
<1>4. Requested' = Requested
  BY <1>3 DEF Requested
<1>5. T!AnswerIsOwn'
  BY <1>1, <1>3 DEF T!AnswerIsOwn, ToolsInv
<1>6. CASE ready # None
  <2>1. UNCHANGED <<child, process, ready, promise, nextId, waiting, asked, alive>>
    BY <1>6 DEF T!Call
  <2>2. T!TypeOK'
    BY <1>1, <1>3, <2>1 DEF ToolsInv, T!TypeOK, CallRecords
  <2>3. ChildrenSuffice'
    BY <1>1, <2>1 DEF ToolsInv, ChildrenSuffice
  <2>4. NumbersSuffice'
    BY <1>1, <1>3, <1>4, <2>1 DEF ToolsInv, NumbersSuffice
  <2>5. ResolversMatch'
    BY <1>1, <1>3, <2>1, ZenonT(40) DEF ToolsInv, ResolversMatch
  <2> QED BY <1>5, <2>2, <2>3, <2>4, <2>5 DEF ToolsInv
<1>7. CASE ready = None
  <2>1. /\ ready' = stops + 1 /\ promise' = [promise EXCEPT ![stops + 1] = "pending"]
        /\ T!Send(stops + 1) /\ nextId \in T!Ids
    BY <1>7, NumberIsLeft DEF T!Call
  <2>2. /\ ChildrenSuffice'
        /\ child' = T!Receiver /\ T!Receiver \in T!Children
        /\ process' \in [T!Children -> States]
        /\ nextId' = nextId + 1 /\ waiting' = [waiting EXCEPT ![nextId] = stops + 1]
        /\ asked' \in {asked, asked \cup {<<nextId, T!Receiver>>}}
        /\ alive' \in BOOLEAN
    BY <1>1, <1>2, <2>1, SendKeeps
  <2>3. T!TypeOK'
    BY <1>1, <1>2, <1>3, <2>1, <2>2, SMTT(30) DEF T!TypeOK, CallRecords, States
  <2>4. NumbersSuffice'
    <3>1. nextId <= 1 + Cardinality(Requested) + stops
      BY <1>7, RequestedCount DEF ToolsInv, NumbersSuffice
    <3>2. nextId' <= 1 + Cardinality(Requested') + stops' + (IF ready' = None THEN 0 ELSE 1)
      <4>1. ready' # None
        BY <2>1
      <4> QED BY <1>1, <1>4, <2>2, <3>1, <4>1, RequestedCount
    <3>3. \A d \in Calls : call'[d].pc \in {"idle", "awaiting"} => call'[d].to = None
      BY <1>1, <1>3 DEF ToolsInv, NumbersSuffice
    <3> QED BY <3>2, <3>3 DEF NumbersSuffice
  <2>5. ResolversMatch'
    <3>1. /\ \A i \in T!Ids : i >= nextId' =>
               waiting'[i] = None /\ \A k \in T!Children : <<i, k>> \notin asked' \cup written'
      BY <1>1, <2>1, <2>2 DEF ToolsInv, ResolversMatch
    <3>2. ASSUME NEW i \in T!Ids, waiting'[i] \in Calls
          PROVE  /\ i # nextId /\ waiting'[i] = waiting[i] /\ waiting[i] # c
                 /\ call'[waiting[i]] = call[waiting[i]]
                 /\ \A k \in T!Children :
                      <<i, k>> \in asked' \cup written' => <<i, k>> \in asked \cup written
      BY <1>1, <1>2, <1>3, <2>1, <2>2, <3>2 DEF ToolsInv, ResolversMatch
    <3>3. ASSUME NEW i \in T!Ids, waiting'[i] \in Calls
          PROVE  /\ call'[waiting'[i]].pc \notin {"idle", "awaiting"}
                 /\ \A k \in T!Children :
                      <<i, k>> \in asked' \cup written' => call'[waiting'[i]].to = k
      <4>1. /\ call[waiting[i]].pc \notin {"idle", "awaiting"}
            /\ \A k \in T!Children : <<i, k>> \in asked \cup written => call[waiting[i]].to = k
        BY <3>2, <3>3 DEF ToolsInv, ResolversMatch
      <4> QED BY <3>2, <3>3, <4>1
    <3> QED BY <3>1, <3>3 DEF ResolversMatch
  <2> QED BY <1>5, <2>2, <2>3, <2>4, <2>5 DEF ToolsInv
<1> QED BY <1>6, <1>7

LEMMA StepRequest ==
  ASSUME ToolsInv, NEW c \in Calls, T!Request(c)
  PROVE  ToolsInv'
<1> USE ToolNumbers, ToolsTypes
<1> DEFINE r == T!Receiver
<1>1. /\ call[c].pc = "awaiting" /\ call[c].to = None
      /\ UNCHANGED <<torn, cut, ready, promise, written, crashes, stops>>
  BY DEF T!Request, ToolsInv, NumbersSuffice
<1>2. T!Send(c) /\ nextId \in T!Ids
  BY <1>1, NumberIsLeft DEF T!Request
<1>3. /\ ChildrenSuffice'
      /\ child' = r /\ r \in T!Children
      /\ process' \in [T!Children -> States]
      /\ nextId' = nextId + 1 /\ waiting' = [waiting EXCEPT ![nextId] = c]
      /\ asked' \in {asked, asked \cup {<<nextId, r>>}}
      /\ alive' \in BOOLEAN
  BY <1>1, <1>2, SendKeeps
<1>4. /\ call' \in [Calls -> CallRecords]
      /\ call'[c].pc = "sent" /\ call'[c].to = r
      /\ \A d \in Calls \ {c} : call'[d] = call[d]
  <2>1. call' = [call EXCEPT ![c].pc = "sent", ![c].to = r] /\ r \in T!Children
    BY <1>3 DEF T!Request
  <2>2. call' \in [Calls -> CallRecords]
    <3>1. call \in [Calls -> CallRecords]
      OBVIOUS
    <3> QED BY ONLY <2>1, <3>1 DEF CallRecords
  <2>3. call'[c].pc = "sent" /\ call'[c].to = r /\ \A d \in Calls \ {c} : call'[d] = call[d]
    BY <2>1 DEF CallRecords
  <2> QED BY <2>2, <2>3
<1>5. T!TypeOK'
  BY <1>1, <1>2, <1>3, <1>4, SMTT(30) DEF T!TypeOK, CallRecords, States
<1>6. NumbersSuffice'
  <2>1. Requested' = Requested \cup {c} /\ c \notin Requested
    BY <1>1, <1>3, <1>4 DEF Requested
  <2>2. Requested \subseteq Calls
    BY DEF Requested
  <2>3. Cardinality(Requested') = Cardinality(Requested) + 1
    BY <2>1, <2>2, FS_Subset, FS_AddElement
  <2>4. Cardinality(Requested) \in Nat
    BY <2>2, FS_Subset, FS_CardinalityType
  <2>5. nextId <= 1 + Cardinality(Requested) + stops + (IF ready = None THEN 0 ELSE 1)
    BY DEF ToolsInv, NumbersSuffice
  <2>6. nextId' <= 1 + Cardinality(Requested') + stops' + (IF ready' = None THEN 0 ELSE 1)
    BY <1>1, <1>3, <2>3, <2>4, <2>5, SMTT(30)
  <2>7. \A d \in Calls : call'[d].pc \in {"idle", "awaiting"} => call'[d].to = None
    BY <1>4 DEF ToolsInv, NumbersSuffice
  <2> QED BY <2>6, <2>7 DEF NumbersSuffice
<1>7. ResolversMatch'
  <2>1. \A i \in T!Ids : i >= nextId' =>
          waiting'[i] = None /\ \A k \in T!Children : <<i, k>> \notin asked' \cup written'
    BY <1>1, <1>2, <1>3 DEF ToolsInv, ResolversMatch
  <2>2. ASSUME NEW i \in T!Ids, i # nextId, waiting'[i] \in Calls
        PROVE  /\ waiting'[i] = waiting[i] /\ waiting[i] # c
               /\ call'[waiting[i]] = call[waiting[i]]
               /\ \A k \in T!Children :
                    <<i, k>> \in asked' \cup written' => <<i, k>> \in asked \cup written
    BY <1>1, <1>3, <1>4, <2>2 DEF ToolsInv, ResolversMatch
  <2>3. ASSUME NEW k \in T!Children, <<nextId, k>> \in asked' \cup written'
        PROVE  k = r
    BY <1>1, <1>2, <1>3, <2>3 DEF ToolsInv, ResolversMatch
  <2>4. ASSUME NEW i \in T!Ids, waiting'[i] \in Calls
        PROVE  /\ call'[waiting'[i]].pc \notin {"idle", "awaiting"}
               /\ \A k \in T!Children :
                    <<i, k>> \in asked' \cup written' => call'[waiting'[i]].to = k
    <3>1. CASE i = nextId
      <4>1. waiting'[i] = c
        BY <1>2, <1>3, <3>1
      <4> QED BY <1>4, <2>3, <3>1, <4>1
    <3>2. CASE i # nextId
      <4>1. /\ call[waiting[i]].pc \notin {"idle", "awaiting"}
            /\ \A k \in T!Children : <<i, k>> \in asked \cup written => call[waiting[i]].to = k
        BY <2>2, <2>4, <3>2 DEF ToolsInv, ResolversMatch
      <4> QED BY <2>2, <2>4, <3>2, <4>1
    <3> QED BY <3>1, <3>2
  <2> QED BY <2>1, <2>4 DEF ResolversMatch
<1>8. T!AnswerIsOwn'
  BY <1>4 DEF ToolsInv, T!AnswerIsOwn
<1> QED BY <1>3, <1>5, <1>6, <1>7, <1>8 DEF ToolsInv

(* A call that ends, answered or not, keeps whom it was written to. *)
LEMMA CallEnds ==
  ASSUME ToolsInv, NEW c \in Calls,
         \/ call' = [call EXCEPT ![c].pc = "failed"]
         \/ \E k \in T!Children : call' = [call EXCEPT ![c].pc = "answered", ![c].by = k]
  PROVE  /\ call' \in [Calls -> CallRecords]
         /\ call'[c].pc \in {"answered", "failed"}
         /\ \A d \in Calls : call'[d].to = call[d].to
         /\ \A d \in Calls \ {c} : call'[d] = call[d]
<1>1. call \in [Calls -> CallRecords]
  BY ToolsTypes
<1>2. CASE call' = [call EXCEPT ![c].pc = "failed"]
  BY ONLY <1>1, <1>2 DEF CallRecords
<1>3. ASSUME NEW k \in T!Children, call' = [call EXCEPT ![c].pc = "answered", ![c].by = k]
      PROVE  /\ call' \in [Calls -> CallRecords]
             /\ call'[c].pc \in {"answered", "failed"}
             /\ \A d \in Calls : call'[d].to = call[d].to
             /\ \A d \in Calls \ {c} : call'[d] = call[d]
  <2>1. call' \in [Calls -> CallRecords]
    BY ONLY <1>1, <1>3 DEF CallRecords
  <2>2. call'[c].pc \in {"answered", "failed"} /\ \A d \in Calls : call'[d].to = call[d].to
    BY ONLY <1>1, <1>3 DEF CallRecords
  <2>3. \A d \in Calls \ {c} : call'[d] = call[d]
    BY ONLY <1>1, <1>3 DEF CallRecords
  <2> QED BY <2>1, <2>2, <2>3
<1> QED BY <1>2, <1>3

(* A resolver that is used or given up, and an answer that is written or read:
   nothing new is expected of anybody. *)
LEMMA ForgettingKeeps ==
  ASSUME ToolsInv,
         UNCHANGED <<nextId, stops, ready>>,
         asked' \cup written' \subseteq asked \cup written,
         \A i \in T!Ids : waiting'[i] \in {waiting[i], None},
         call' \in [Calls -> CallRecords],
         \A d \in Calls : /\ call'[d].to = call[d].to
                          /\ call'[d].pc \in {call[d].pc, "answered", "failed"}
  PROVE  NumbersSuffice' /\ ResolversMatch'
<1> USE ToolNumbers, ToolsTypes
<1>1. NumbersSuffice'
  <2>1. Requested' = Requested
    BY DEF Requested
  <2> QED BY <2>1 DEF ToolsInv, NumbersSuffice
<1>2. \A i \in T!Ids : i >= nextId' =>
        waiting'[i] = None /\ \A k \in T!Children : <<i, k>> \notin asked' \cup written'
  BY DEF ToolsInv, ResolversMatch
<1>3. ASSUME NEW i \in T!Ids, waiting'[i] \in Calls
      PROVE  /\ call'[waiting'[i]].pc \notin {"idle", "awaiting"}
             /\ \A k \in T!Children :
                  <<i, k>> \in asked' \cup written' => call'[waiting'[i]].to = k
  <2>1. waiting'[i] = waiting[i]
    BY <1>3
  <2>2. /\ call[waiting[i]].pc \notin {"idle", "awaiting"}
        /\ \A k \in T!Children : <<i, k>> \in asked \cup written => call[waiting[i]].to = k
    BY <1>3, <2>1 DEF ToolsInv, ResolversMatch
  <2> QED BY <1>3, <2>1, <2>2
<1> QED BY <1>1, <1>2, <1>3 DEF ResolversMatch

LEMMA StepRead ==
  ASSUME ToolsInv, NEW i \in T!Ids, NEW k \in T!Children, T!Read(i, k)
  PROVE  ToolsInv'
<1> USE ToolNumbers, ToolsTypes
<1>1. /\ <<i, k>> \in written /\ written' = written \ {<<i, k>>} /\ cut' = FALSE
      /\ UNCHANGED <<child, process, torn, ready, nextId, asked, alive, crashes, stops>>
  BY DEF T!Read
<1>2. ChildrenSuffice'
  BY <1>1 DEF ToolsInv, ChildrenSuffice
<1>3. CASE UNCHANGED <<promise, waiting, call>>
  <2>1. T!TypeOK' /\ T!AnswerIsOwn'
    BY <1>1, <1>3 DEF ToolsInv, T!TypeOK, T!AnswerIsOwn
  <2>2. NumbersSuffice' /\ ResolversMatch'
    BY <1>1, <1>3, ForgettingKeeps
  <2> QED BY <1>2, <2>1, <2>2 DEF ToolsInv
<1>4. CASE /\ waiting[i] \in T!Promises /\ waiting' = [waiting EXCEPT ![i] = None]
           /\ \E s \in {"rejected", "resolved"} : promise' = [promise EXCEPT ![waiting[i]] = s]
           /\ UNCHANGED call
  <2>1. promise' \in [T!Promises -> {"none", "pending", "resolved", "rejected"}]
    <3>1. PICK s \in {"rejected", "resolved"} : promise' = [promise EXCEPT ![waiting[i]] = s]
      BY <1>4
    <3> QED BY <3>1
  <2>2. waiting' \in [T!Ids -> Calls \cup T!Promises \cup {None}]
    BY <1>4
  <2>3. T!TypeOK' /\ T!AnswerIsOwn'
    BY <1>1, <1>4, <2>1, <2>2 DEF ToolsInv, T!TypeOK, T!AnswerIsOwn
  <2>4. NumbersSuffice' /\ ResolversMatch'
    BY <1>1, <1>4, ForgettingKeeps
  <2> QED BY <1>2, <2>3, <2>4 DEF ToolsInv
<1>5. CASE /\ waiting[i] \in Calls /\ waiting' = [waiting EXCEPT ![i] = None]
           /\ call' = [call EXCEPT ![waiting[i]].pc = "answered", ![waiting[i]].by = k]
           /\ UNCHANGED promise
  <2> DEFINE c == waiting[i]
  <2>1. c \in Calls /\ call[c].to = k
    BY <1>1, <1>5 DEF ToolsInv, ResolversMatch
  <2>2. /\ call' \in [Calls -> CallRecords]
        /\ call'[c].pc \in {"answered", "failed"}
        /\ \A d \in Calls : call'[d].to = call[d].to
        /\ \A d \in Calls \ {c} : call'[d] = call[d]
    BY <1>5, <2>1, CallEnds
  <2>3. call'[c].by = k
    BY <1>5, <2>1 DEF CallRecords
  <2>4. T!AnswerIsOwn'
    BY <2>1, <2>2, <2>3 DEF ToolsInv, T!AnswerIsOwn
  <2>5. T!TypeOK'
    BY <1>1, <1>5, <2>2 DEF ToolsInv, T!TypeOK, CallRecords
  <2>6. \A d \in Calls : call'[d].pc \in {call[d].pc, "answered", "failed"}
    BY <2>2
  <2>7. \A j \in T!Ids : waiting'[j] \in {waiting[j], None}
    BY <1>5
  <2>8. NumbersSuffice' /\ ResolversMatch'
    BY <1>1, <2>2, <2>6, <2>7, ForgettingKeeps
  <2> QED BY <1>2, <2>4, <2>5, <2>8 DEF ToolsInv
<1> QED BY <1>3, <1>4, <1>5 DEF T!Read, T!Resolve

LEMMA StepTimeOut ==
  ASSUME ToolsInv, NEW i \in T!Ids, T!TimeOut(i)
  PROVE  ToolsInv'
<1> USE ToolNumbers, ToolsTypes
<1>1. /\ waiting[i] # None /\ waiting' = [waiting EXCEPT ![i] = None]
      /\ UNCHANGED <<child, process, torn, cut, ready, nextId, asked, written, alive, crashes, stops>>
  BY DEF T!TimeOut
<1>2. ChildrenSuffice'
  BY <1>1 DEF ToolsInv, ChildrenSuffice
<1>3. \A j \in T!Ids : waiting'[j] \in {waiting[j], None}
  BY <1>1
<1>4. CASE waiting[i] \in T!Promises
  <2>1. promise' = [promise EXCEPT ![waiting[i]] = "rejected"] /\ call' = call
    BY <1>4 DEF T!TimeOut
  <2>2. T!TypeOK' /\ T!AnswerIsOwn'
    BY <1>1, <1>4, <2>1 DEF ToolsInv, T!TypeOK, T!AnswerIsOwn
  <2>3. NumbersSuffice' /\ ResolversMatch'
    BY <1>1, <1>3, <2>1, ForgettingKeeps
  <2> QED BY <1>2, <2>2, <2>3 DEF ToolsInv
<1>5. CASE waiting[i] \in Calls
  <2>1. call' = [call EXCEPT ![waiting[i]].pc = "failed"] /\ promise' = promise
    BY <1>5 DEF T!TimeOut
  <2>2. /\ call' \in [Calls -> CallRecords]
        /\ call'[waiting[i]].pc \in {"answered", "failed"}
        /\ \A d \in Calls : call'[d].to = call[d].to
        /\ \A d \in Calls \ {waiting[i]} : call'[d] = call[d]
    BY <1>5, <2>1, CallEnds
  <2>3. call'[waiting[i]].pc = "failed"
    BY <1>5, <2>1 DEF CallRecords
  <2>4. T!AnswerIsOwn'
    BY <2>2, <2>3 DEF ToolsInv, T!AnswerIsOwn
  <2>5. T!TypeOK'
    BY <1>1, <1>5, <2>1, <2>2 DEF ToolsInv, T!TypeOK, CallRecords
  <2>6. \A d \in Calls : call'[d].pc \in {call[d].pc, "answered", "failed"}
    BY <2>2
  <2>7. NumbersSuffice' /\ ResolversMatch'
    BY <1>1, <1>3, <2>2, <2>6, ForgettingKeeps
  <2> QED BY <1>2, <2>4, <2>5, <2>7 DEF ToolsInv
<1> QED BY <1>1, <1>4, <1>5

(* The steps of the child processes, and of what the console notices of them. *)
LEMMA StepProcess ==
  ASSUME ToolsInv, NEW k \in T!Children, NEW t \in {"dead", "gone"},
         process[k] = IF t = "dead" THEN "running" ELSE "dead",
         process' = [process EXCEPT ![k] = t],
         t = "dead" => crashes' + stops' = crashes + stops + 1,
         t = "gone" => crashes' + stops' = crashes + stops,
         stops' \in 0..MaxStops /\ crashes' \in 0..MaxCrashes,
         child' \in {child, None}, child' = None /\ child # None => t = "gone" \/ stops' = stops + 1,
         stops' >= stops
  PROVE  ChildrenSuffice' /\ process' \in [T!Children -> States]
<1> USE ToolNumbers, ToolsTypes
<1>1. process' \in [T!Children -> States] /\ t \in States /\ process[k] # t /\ process[k] \in States
  BY DEF States
<1>2. /\ Cardinality(InState(process', t)) = Cardinality(InState(process, t)) + 1
      /\ Cardinality(InState(process', process[k])) = Cardinality(InState(process, process[k])) - 1
      /\ \A s \in States : s # t /\ s # process[k] => InState(process', s) = InState(process, s)
  BY <1>1, MoveCounts
<1>3. /\ InState(process', "unborn") = InState(process, "unborn")
      /\ t = "dead" => /\ InState(process', "gone") = InState(process, "gone")
                       /\ Cardinality(InState(process', "dead")) = Cardinality(InState(process, "dead")) + 1
      /\ t = "gone" => /\ Cardinality(InState(process', "dead")) = Cardinality(InState(process, "dead")) - 1
                       /\ Cardinality(InState(process', "gone")) = Cardinality(InState(process, "gone")) + 1
  BY <1>2 DEF States
<1>4. /\ Cardinality(InState(process, "unborn")) + stops + Cardinality(InState(process, "gone"))
           + (IF child = None THEN 0 ELSE 1) >= 1 + 2 * MaxStops + MaxCrashes
      /\ Cardinality(InState(process, "dead")) + Cardinality(InState(process, "gone"))
           <= crashes + stops
  BY DEF ToolsInv, ChildrenSuffice
<1>5. child' # None => process'[child'] # "unborn"
  BY DEF ToolsInv, ChildrenSuffice
<1>6. /\ Cardinality(InState(process, "unborn")) \in Nat
      /\ Cardinality(InState(process, "dead")) \in Nat
      /\ Cardinality(InState(process, "gone")) \in Nat
  BY InStateFinite
<1> DEFINE u == Cardinality(InState(process, "unborn"))
           d == Cardinality(InState(process, "dead"))
           g == Cardinality(InState(process, "gone"))
<1>7. /\ Cardinality(InState(process', "unborn")) = u
      /\ Cardinality(InState(process', "dead")) = IF t = "dead" THEN d + 1 ELSE d - 1
      /\ Cardinality(InState(process', "gone")) = IF t = "dead" THEN g ELSE g + 1
  BY <1>3
<1>8. /\ u \in Nat /\ d \in Nat /\ g \in Nat /\ stops \in Nat /\ crashes \in Nat
      /\ stops' \in Nat /\ crashes' \in Nat
      /\ d + g <= crashes + stops
      /\ u + stops + g + (IF child = None THEN 0 ELSE 1) >= 1 + 2 * MaxStops + MaxCrashes
  BY <1>4, <1>6
<1>9. /\ t = "dead" => crashes' + stops' = crashes + stops + 1
      /\ t = "gone" => crashes' + stops' = crashes + stops
      /\ child' = child \/ (child' = None /\ (t = "gone" \/ stops' = stops + 1))
      /\ stops' >= stops /\ MaxStops \in Nat /\ MaxCrashes \in Nat /\ t \in {"dead", "gone"}
  OBVIOUS
<1> HIDE DEF u, d, g
<1>10. Cardinality(InState(process', "dead")) + Cardinality(InState(process', "gone"))
         <= crashes' + stops'
  <2>1. CASE t = "gone"
    <3>1. /\ Cardinality(InState(process', "dead")) = d - 1
          /\ Cardinality(InState(process', "gone")) = g + 1
      BY <1>7, <2>1
    <3>2. crashes' + stops' = crashes + stops
      BY <1>9, <2>1
    <3>3. (d - 1) + (g + 1) <= crashes + stops
      BY ONLY <1>8
    <3> QED BY ONLY <3>1, <3>2, <3>3
  <2>2. CASE t = "dead"
    <3>1. /\ Cardinality(InState(process', "dead")) = d + 1
          /\ Cardinality(InState(process', "gone")) = g
      BY <1>7, <2>2
    <3>2. crashes' + stops' = crashes + stops + 1
      BY <1>9, <2>2
    <3>3. (d + 1) + g <= crashes + stops + 1
      BY ONLY <1>8
    <3> QED BY ONLY <3>1, <3>2, <3>3
  <2> QED BY <1>9, <2>1, <2>2
<1>11. Cardinality(InState(process', "unborn")) + stops' + Cardinality(InState(process', "gone"))
         + (IF child' = None THEN 0 ELSE 1) >= 1 + 2 * MaxStops + MaxCrashes
  <2>1. CASE child' = None /\ child # None
    <3>1. t = "gone" \/ stops' = stops + 1
      BY ONLY <1>9, <2>1
    <3>2. CASE t = "gone"
      BY ONLY <1>7, <1>8, <1>9, <2>1, <3>2
    <3>3. CASE t = "dead"
      BY ONLY <1>7, <1>8, <1>9, <2>1, <3>1, <3>3
    <3> QED BY <1>9, <3>2, <3>3
  <2>2. CASE child' = child
    <3>1. CASE t = "gone"
      BY ONLY <1>7, <1>8, <1>9, <2>2, <3>1
    <3>2. CASE t = "dead"
      BY ONLY <1>7, <1>8, <1>9, <2>2, <3>2
    <3> QED BY <1>9, <3>1, <3>2
  <2> QED BY <1>9, <2>1, <2>2
<1> QED BY <1>1, <1>5, <1>10, <1>11 DEF ChildrenSuffice

(* Every step of the tool client preserves the invariant. *)
LEMMA ToolsStep ==
  ASSUME ToolsInv, [T!Next]_toolsVars
  PROVE  ToolsInv'
<1> USE ToolNumbers, ToolsTypes
<1>0. /\ MaxStops \in Nat /\ stops \in Nat /\ stops <= MaxStops
      /\ MaxCrashes \in Nat /\ crashes \in Nat /\ crashes <= MaxCrashes
  OBVIOUS
<1>1. ASSUME NEW c \in Calls, T!Call(c) PROVE ToolsInv'
  BY <1>1, StepCall
<1>2. ASSUME NEW c \in Calls, T!Request(c) PROVE ToolsInv'
  BY <1>2, StepRequest
<1>3. ASSUME NEW c \in Calls, T!Refused(c) PROVE ToolsInv'
  <2>1. /\ call' = [call EXCEPT ![c].pc = "failed"]
        /\ UNCHANGED <<child, process, torn, cut, ready, promise, nextId, waiting, asked, written,
                       alive, crashes, stops>>
    BY <1>3 DEF T!Refused
  <2>2. /\ call' \in [Calls -> CallRecords]
        /\ \A d \in Calls : call'[d].to = call[d].to
        /\ \A d \in Calls \ {c} : call'[d] = call[d]
        /\ call'[c].pc \in {"answered", "failed"}
    BY <2>1, CallEnds
  <2>3. call'[c].pc = "failed"
    BY <2>1 DEF CallRecords
  <2>4. T!AnswerIsOwn'
    BY <2>2, <2>3 DEF ToolsInv, T!AnswerIsOwn
  <2>5. T!TypeOK' /\ ChildrenSuffice'
    BY <2>1, <2>2 DEF ToolsInv, T!TypeOK, ChildrenSuffice, CallRecords
  <2>6. \A d \in Calls : call'[d].pc \in {call[d].pc, "answered", "failed"}
    BY <2>2
  <2>7. NumbersSuffice' /\ ResolversMatch'
    BY <2>1, <2>2, <2>6, ForgettingKeeps
  <2> QED BY <2>4, <2>5, <2>7 DEF ToolsInv
<1>4. ASSUME NEW i \in T!Ids, T!TimeOut(i) PROVE ToolsInv'
  BY <1>4, StepTimeOut
<1>5. ASSUME NEW i \in T!Ids, NEW k \in T!Children, T!Answer(i, k) PROVE ToolsInv'
  <2>1. /\ <<i, k>> \in asked /\ asked' = asked \ {<<i, k>>}
        /\ written' = written \cup {<<i, k>>}
        /\ UNCHANGED <<child, process, torn, cut, ready, promise, nextId, waiting, call, alive,
                       crashes, stops>>
    BY <1>5 DEF T!Answer
  <2>2. T!TypeOK' /\ ChildrenSuffice' /\ T!AnswerIsOwn'
    BY <2>1 DEF ToolsInv, T!TypeOK, ChildrenSuffice, T!AnswerIsOwn
  <2>3. asked' \cup written' \subseteq asked \cup written
    BY <2>1
  <2>4. NumbersSuffice' /\ ResolversMatch'
    BY <2>1, <2>3, ForgettingKeeps
  <2> QED BY <2>2, <2>4 DEF ToolsInv
<1>6. ASSUME NEW i \in T!Ids, NEW k \in T!Children, T!Read(i, k) PROVE ToolsInv'
  BY <1>6, StepRead
<1>7. ASSUME NEW k \in T!Children, T!ReadPiece(k) PROVE ToolsInv'
  <2>1. /\ torn' \subseteq T!Children /\ cut' = TRUE
        /\ UNCHANGED <<child, process, ready, promise, nextId, waiting, asked, written, call,
                       alive, crashes, stops>>
    BY <1>7 DEF T!ReadPiece
  <2>2. T!TypeOK' /\ ChildrenSuffice' /\ T!AnswerIsOwn'
    BY <2>1 DEF ToolsInv, T!TypeOK, ChildrenSuffice, T!AnswerIsOwn
  <2>3. NumbersSuffice' /\ ResolversMatch'
    BY <2>1, ForgettingKeeps
  <2> QED BY <2>2, <2>3 DEF ToolsInv
<1>8. ASSUME NEW k \in T!Children, T!Crash(k) PROVE ToolsInv'
  <2>1. /\ process[k] = "running" /\ process' = [process EXCEPT ![k] = "dead"]
        /\ crashes' = crashes + 1 /\ crashes < MaxCrashes /\ torn' \subseteq T!Children
        /\ UNCHANGED <<child, cut, ready, promise, nextId, waiting, asked, written, call, alive,
                       stops>>
    BY <1>8 DEF T!Crash
  <2>2. /\ crashes' + stops' = crashes + stops + 1 /\ stops' >= stops
        /\ stops' \in 0..MaxStops /\ crashes' \in 0..MaxCrashes
    BY ONLY <1>0, <2>1
  <2>3. ChildrenSuffice' /\ process' \in [T!Children -> States]
    BY <2>1, <2>2, StepProcess
  <2>4. T!TypeOK' /\ T!AnswerIsOwn'
    BY <2>1, <2>3 DEF ToolsInv, T!TypeOK, T!AnswerIsOwn, States
  <2>5. NumbersSuffice' /\ ResolversMatch'
    BY <2>1, ForgettingKeeps
  <2> QED BY <2>3, <2>4, <2>5 DEF ToolsInv
<1>9. CASE T!Stop
  <2>1. /\ child \in T!Children /\ stops' = stops + 1 /\ stops < MaxStops
        /\ process' = [process EXCEPT ![child] = IF @ = "running" THEN "dead" ELSE @]
        /\ child' = None /\ ready' = None
        /\ UNCHANGED <<torn, cut, promise, nextId, waiting, asked, written, call, alive, crashes>>
    BY <1>9 DEF T!Stop
  <2>2. /\ crashes' + stops' = crashes + stops + 1 /\ stops' >= stops
        /\ stops' \in 0..MaxStops /\ crashes' \in 0..MaxCrashes
    BY ONLY <1>0, <2>1
  <2>3. ChildrenSuffice' /\ process' \in [T!Children -> States]
    <3>1. CASE process[child] = "running"
      BY <2>1, <2>2, <3>1, StepProcess
    <3>2. CASE process[child] # "running"
      <4>1. process' = process
        BY <2>1, <3>2
      <4>2. /\ Cardinality(InState(process, "unborn")) \in Nat
            /\ Cardinality(InState(process, "dead")) \in Nat
            /\ Cardinality(InState(process, "gone")) \in Nat
        BY InStateFinite
      <4>3. /\ Cardinality(InState(process, "unborn")) + stops + Cardinality(InState(process, "gone"))
                 + 1 >= 1 + 2 * MaxStops + MaxCrashes
            /\ Cardinality(InState(process, "dead")) + Cardinality(InState(process, "gone"))
                 <= crashes + stops
        BY <2>1 DEF ToolsInv, ChildrenSuffice
      <4>4. /\ Cardinality(InState(process, "unborn")) + stops' + Cardinality(InState(process, "gone"))
                 + 0 >= 1 + 2 * MaxStops + MaxCrashes
            /\ Cardinality(InState(process, "dead")) + Cardinality(InState(process, "gone"))
                 <= crashes' + stops'
        BY ONLY <1>0, <2>1, <4>2, <4>3
      <4> QED BY <2>1, <2>2, <4>1, <4>4 DEF ChildrenSuffice
    <3> QED BY <3>1, <3>2
  <2>4. T!TypeOK' /\ T!AnswerIsOwn'
    BY <2>1, <2>3 DEF ToolsInv, T!TypeOK, T!AnswerIsOwn, States
  <2>5. NumbersSuffice'
    <3>1. Requested' = Requested
      BY <2>1 DEF Requested
    <3>2. nextId <= 1 + Cardinality(Requested) + stops + 1
      BY RequestedCount DEF ToolsInv, NumbersSuffice
    <3> QED BY <2>1, <3>1, <3>2, RequestedCount DEF ToolsInv, NumbersSuffice
  <2>6. ResolversMatch'
    BY <2>1 DEF ToolsInv, ResolversMatch
  <2> QED BY <2>3, <2>4, <2>5, <2>6 DEF ToolsInv
<1>10. ASSUME NEW k \in T!Children, T!ExitNoticed(k) PROVE ToolsInv'
  <2>1. /\ process[k] = "dead" /\ process' = [process EXCEPT ![k] = "gone"] /\ child' = None
        /\ UNCHANGED <<torn, cut, ready, promise, nextId, waiting, asked, written, call, alive,
                       crashes, stops>>
    BY <1>10 DEF T!ExitNoticed
  <2>2. /\ crashes' + stops' = crashes + stops /\ stops' >= stops
        /\ stops' \in 0..MaxStops /\ crashes' \in 0..MaxCrashes
    BY ONLY <1>0, <2>1
  <2>3. ChildrenSuffice' /\ process' \in [T!Children -> States]
    BY <2>1, <2>2, StepProcess
  <2>4. T!TypeOK' /\ T!AnswerIsOwn'
    BY <2>1, <2>3 DEF ToolsInv, T!TypeOK, T!AnswerIsOwn, States
  <2>5. NumbersSuffice' /\ ResolversMatch'
    BY <2>1, ForgettingKeeps
  <2> QED BY <2>3, <2>4, <2>5 DEF ToolsInv
<1>11. CASE UNCHANGED toolsVars
  <2>1. T!TypeOK' /\ ChildrenSuffice' /\ T!AnswerIsOwn'
    BY <1>11 DEF toolsVars, ToolsInv, T!TypeOK, ChildrenSuffice, T!AnswerIsOwn
  <2>2. NumbersSuffice' /\ ResolversMatch'
    BY <1>11, ForgettingKeeps DEF toolsVars
  <2> QED BY <2>1, <2>2 DEF ToolsInv
<1> QED
  BY <1>1, <1>2, <1>3, <1>4, <1>5, <1>6, <1>7, <1>8, <1>9, <1>10, <1>11 DEF T!Next

(* An answer of a child resolves only a request that was written to that child,
   however many children die, are stopped or answer late, with ids, resolvers and
   the buffer shared by all of them; and neither children nor ids run out. *)
THEOREM AnswersAreOwn == ConsoleSpec => [](AnswerIsOwn /\ T!TypeOK)
<1>1. ConsoleInit => ToolsInv
  BY ToolsStart DEF ConsoleInit
<1>2. [ConsoleNext]_allVars => [T!Next]_toolsVars
  BY DEF ConsoleNext, Others, allVars
<1>3. ToolsInv => AnswerIsOwn /\ T!TypeOK
  BY DEF ToolsInv, AnswerIsOwn
<1> QED BY <1>1, <1>2, <1>3, ToolsStep, PTL DEF ConsoleSpec
-----------------------------------------------------------------------------
(* Arming.  The claim is about the port, and the port's owner may be a     *)
(* child that was killed, one that has not answered yet, or one of another *)
(* arming.  Whoever it is, his death is noticed: the exit handler is on    *)
(* him, or his arming still polls; and an exit that is ignored because a   *)
(* kill was asked for has an arming behind it that is about to spawn.      *)

Overseen(k) == k \in overseen \/ arming[k].pc = "polling"

ArmingInv ==
  /\ A!TypeOK
  /\ \A k \in A!Armings : merchants[k] = "starting" \/ port = k => Overseen(k)
  /\ stopping => \E a \in A!Armings : arming[a].pc = "settling"
  /\ A!ClaimIsBacked

ArmingRecords ==
  [why : {"request", "restart", "restore", None}, mode : Modes \cup {None},
   pc : {"unused", "timer", "settling", "polling", "remembering", "forgetting", "done"}]
MerchantStates == {"unborn", "starting", "alive", "dying", "dead", "gone"}

LEMMA ArmingTypes ==
  ASSUME ArmingInv
  PROVE  /\ mode \in Modes \cup {None} /\ saved \in Modes \cup {None}
         /\ merchant \in A!Armings \cup {None} /\ port \in A!Armings \cup {None}
         /\ stopping \in BOOLEAN /\ warned \in BOOLEAN
         /\ restarts \in 0..MaxRestarts /\ MaxRestarts \in Nat
         /\ arming \in [A!Armings -> ArmingRecords]
         /\ merchants \in [A!Armings -> MerchantStates]
         /\ overseen \subseteq A!Armings
         /\ None \notin Modes /\ None \notin A!Armings
BY ConsoleAssumption
DEF ArmingInv, A!TypeOK, ArmingRecords, MerchantStates, ConsoleAssumption, A!ArmingAssumption,
    A!Armings

LEMMA NextIsFree ==
  ASSUME A!Free
  PROVE  A!Next1 \in A!Armings /\ arming[A!Next1].pc = "unused"
BY DEF A!Free, A!Next1

(* armMode up to its first await, called for an arming that is not under way. *)
LEMMA ArmModeKeeps ==
  ASSUME ArmingInv, NEW a \in A!Armings, arming[a].pc # "polling",
         NEW why \in {"request", "restart"}, NEW m \in Modes, A!ArmMode(a, why, m),
         restarts' \in 0..MaxRestarts,
         UNCHANGED <<mode, saved, overseen, port, warned>>
  PROVE  ArmingInv'
<1> USE ArmingTypes
<1>1. CASE merchant # None
  <2> DEFINE new == [why |-> why, mode |-> m, pc |-> "settling"]
  <2>1. /\ stopping' = TRUE /\ merchant' = None
        /\ merchants' = [merchants EXCEPT ![merchant] = IF @ \in {"starting", "alive"} THEN "dying" ELSE @]
        /\ arming' = [arming EXCEPT ![a] = new]
    BY <1>1 DEF A!ArmMode, A!Killed
  <2>2. new \in ArmingRecords
    BY DEF ArmingRecords
  <2>3. arming' \in [A!Armings -> ArmingRecords] /\ merchants' \in [A!Armings -> MerchantStates]
    BY <1>1, <2>1, <2>2 DEF MerchantStates
  <2>4. arming'[a].pc = "settling" /\ \A k \in A!Armings \ {a} : arming'[k] = arming[k]
    BY <2>1
  <2>5. A!TypeOK'
    BY <2>1, <2>3, SMTT(30) DEF A!TypeOK, ArmingRecords, MerchantStates
  <2>6. ASSUME NEW k \in A!Armings, merchants'[k] = "starting" \/ port' = k PROVE Overseen(k)'
    <3>1. merchants[k] = "starting" \/ port = k
      BY <1>1, <2>1, <2>6
    <3>2. Overseen(k)
      BY <3>1 DEF ArmingInv
    <3> QED BY <2>4, <3>2 DEF Overseen
  <2> QED BY <2>4, <2>5, <2>6 DEF ArmingInv, A!ClaimIsBacked, A!Pending
<1>2. CASE merchant = None
  <2> DEFINE new == [why |-> why, mode |-> m, pc |-> "polling"]
  <2>1. /\ stopping' = FALSE /\ merchant' = merchant
        /\ merchants' = [merchants EXCEPT ![a] = "starting"]
        /\ arming' = [arming EXCEPT ![a] = new]
    BY <1>2 DEF A!ArmMode
  <2>2. new \in ArmingRecords
    BY DEF ArmingRecords
  <2>3. arming' \in [A!Armings -> ArmingRecords] /\ merchants' \in [A!Armings -> MerchantStates]
    BY <2>1, <2>2 DEF MerchantStates
  <2>4. arming'[a].pc = "polling" /\ \A k \in A!Armings \ {a} : arming'[k] = arming[k]
    BY <2>1
  <2>5. A!TypeOK'
    BY <2>1, <2>3, ZenonT(40) DEF A!TypeOK, ArmingRecords, MerchantStates
  <2>6. ASSUME NEW k \in A!Armings, merchants'[k] = "starting" \/ port' = k PROVE Overseen(k)'
    <3>1. CASE k = a
      BY <2>4, <3>1 DEF Overseen
    <3>2. CASE k # a
      BY <2>1, <2>4, <2>6, <3>2 DEF ArmingInv, Overseen
    <3> QED BY <3>1, <3>2
  <2> QED BY <2>1, <2>4, <2>5, <2>6 DEF ArmingInv, A!ClaimIsBacked, A!Pending
<1> QED BY <1>1, <1>2

\* an arming that goes on to its next step
LEMMA ArmingMoves ==
  ASSUME ArmingInv, NEW a \in A!Armings,
         NEW pc \in {"unused", "timer", "settling", "polling", "remembering", "forgetting", "done"},
         arming' = [arming EXCEPT ![a].pc = pc]
  PROVE  /\ arming' \in [A!Armings -> ArmingRecords]
         /\ arming'[a].pc = pc /\ \A k \in A!Armings \ {a} : arming'[k] = arming[k]
<1>1. arming \in [A!Armings -> ArmingRecords]
  BY ArmingTypes
<1>2. arming' \in [A!Armings -> ArmingRecords]
  BY ONLY <1>1, arming' = [arming EXCEPT ![a].pc = pc] DEF ArmingRecords
<1>3. arming'[a].pc = pc /\ \A k \in A!Armings \ {a} : arming'[k] = arming[k]
  BY ONLY <1>1, arming' = [arming EXCEPT ![a].pc = pc] DEF ArmingRecords
<1> QED BY <1>2, <1>3

(* An exit event, the only step that may leave a death to nobody. *)
LEMMA StepExit ==
  ASSUME ArmingInv, NEW k \in A!Armings, A!Exit(k)
  PROVE  ArmingInv'
<1> USE ArmingTypes
<1>1. /\ merchants[k] = "dead" /\ merchants' = [merchants EXCEPT ![k] = "gone"]
      /\ UNCHANGED <<stopping, saved, overseen, port, warned>>
  BY DEF A!Exit
<1>2. merchants' \in [A!Armings -> MerchantStates]
  BY <1>1 DEF MerchantStates
<1>3. \A j \in A!Armings : merchants'[j] = "starting" => merchants[j] = "starting"
  BY <1>1
<1>4. CASE /\ k \notin overseen \/ stopping \/ mode = None
           /\ UNCHANGED <<mode, merchant, restarts, arming>>
  <2>1. A!TypeOK'
    BY <1>1, <1>2, <1>4 DEF ArmingInv, A!TypeOK, MerchantStates
  <2>2. \A j \in A!Armings : merchants'[j] = "starting" \/ port' = j => Overseen(j)'
    BY <1>1, <1>3, <1>4 DEF ArmingInv, Overseen
  <2>3. A!ClaimIsBacked'
    <3>1. CASE k \notin overseen
      <4>1. \A j \in overseen : merchants[j] = "dead" => merchants'[j] = "dead"
        BY <1>1, <3>1
      <4> QED BY <1>1, <1>4, <4>1 DEF ArmingInv, A!ClaimIsBacked, A!Pending
    <3>2. CASE stopping
      BY <1>1, <1>4, <3>2 DEF ArmingInv, A!ClaimIsBacked, A!Pending
    <3>3. CASE mode = None
      BY <1>4, <3>3 DEF A!ClaimIsBacked
    <3> QED BY <1>4, <3>1, <3>2, <3>3
  <2> QED BY <1>1, <1>4, <2>1, <2>2, <2>3 DEF ArmingInv
<1>5. CASE A!GiveUp /\ UNCHANGED <<restarts, arming>>
  <2>1. A!TypeOK'
    BY <1>1, <1>2, <1>5 DEF ArmingInv, A!TypeOK, A!GiveUp, MerchantStates
  <2>2. \A j \in A!Armings : merchants'[j] = "starting" \/ port' = j => Overseen(j)'
    BY <1>1, <1>3, <1>5 DEF ArmingInv, Overseen
  <2>3. A!ClaimIsBacked'
    BY <1>5 DEF A!GiveUp, A!ClaimIsBacked
  <2> QED BY <1>1, <1>5, <2>1, <2>2, <2>3 DEF ArmingInv
<1>6. ASSUME NEW recent \in 0..restarts, recent # MaxRestarts, A!Free, restarts' = recent + 1,
             arming' = [arming EXCEPT ![A!Next1].pc = "timer", ![A!Next1].why = "restart"],
             UNCHANGED <<mode, merchant>>
      PROVE  ArmingInv'
  <2> DEFINE n == A!Next1
  <2>1. n \in A!Armings /\ arming[n].pc = "unused"
    BY <1>6, NextIsFree
  <2>2. arming \in [A!Armings -> ArmingRecords]
    OBVIOUS
  <2>3. arming' \in [A!Armings -> ArmingRecords]
    BY ONLY <1>6, <2>1, <2>2 DEF ArmingRecords
  <2>4. arming'[n].pc = "timer" /\ \A j \in A!Armings \ {n} : arming'[j] = arming[j]
    BY ONLY <1>6, <2>1, <2>2 DEF ArmingRecords
  <2>5. restarts' \in 0..MaxRestarts
    BY <1>6
  <2>6. A!TypeOK'
    BY <1>1, <1>2, <1>6, <2>3, <2>5 DEF ArmingInv, A!TypeOK, ArmingRecords, MerchantStates
  <2>7. \A j \in A!Armings : merchants'[j] = "starting" \/ port' = j => Overseen(j)'
    <3> SUFFICES ASSUME NEW j \in A!Armings, merchants'[j] = "starting" \/ port' = j
                 PROVE  Overseen(j)'
      OBVIOUS
    <3>1. Overseen(j)
      BY <1>1, <1>3 DEF ArmingInv
    <3> QED BY <1>1, <2>1, <2>4, <3>1 DEF Overseen
  <2>8. stopping' => \E a \in A!Armings : arming'[a].pc = "settling"
    BY <1>1, <2>1, <2>4 DEF ArmingInv
  <2>9. A!ClaimIsBacked'
    BY <2>1, <2>4 DEF A!ClaimIsBacked, A!Pending
  <2> QED BY <2>6, <2>7, <2>8, <2>9 DEF ArmingInv
<1> QED BY <1>4, <1>5, <1>6 DEF A!Exit

LEMMA StepReboot ==
  ASSUME ArmingInv, A!Reboot
  PROVE  ArmingInv'
<1> USE ArmingTypes
<1> DEFINE over == [a \in A!Armings |-> IF arming[a].pc = "unused" THEN A!Unused
                                        ELSE [arming[a] EXCEPT !.pc = "done"]]
           ended == [k \in A!Armings |-> IF merchants[k] = "unborn" THEN "unborn" ELSE "gone"]
           n == A!Next1
<1>1. /\ mode' = None /\ merchant' = None /\ stopping' = FALSE /\ restarts' = 0 /\ port' = None
      /\ overseen' = {} /\ warned' = FALSE /\ saved' = saved
      /\ n \in A!Armings /\ restarts' \in 0..MaxRestarts
  BY NextIsFree DEF A!Reboot
<1>2. over \in [A!Armings -> ArmingRecords]
  <2>1. A!Unused \in ArmingRecords
    BY DEF A!Unused, ArmingRecords
  <2>2. ASSUME NEW a \in A!Armings PROVE [arming[a] EXCEPT !.pc = "done"] \in ArmingRecords
    BY DEF ArmingRecords
  <2> QED BY <2>1, <2>2
<1>3. ended \in [A!Armings -> MerchantStates] /\ \A k \in A!Armings : ended[k] # "starting"
  BY DEF MerchantStates
<1>4. CASE saved = None
  <2>1. arming' = over /\ merchants' = ended
    BY <1>4 DEF A!Reboot
  <2> HIDE DEF over, ended
  <2>2. A!TypeOK'
    BY <1>1, <1>2, <1>3, <2>1 DEF A!TypeOK, ArmingRecords, MerchantStates
  <2>3. \A k \in A!Armings : merchants'[k] # "starting" /\ port' # k
    BY <1>1, <1>3, <2>1
  <2> QED BY <1>1, <2>2, <2>3 DEF ArmingInv, A!ClaimIsBacked
<1>5. CASE saved # None
  <2> DEFINE new == [why |-> "restore", mode |-> saved, pc |-> "polling"]
  <2>1. arming' = [over EXCEPT ![n] = new] /\ merchants' = [ended EXCEPT ![n] = "starting"]
    BY <1>5 DEF A!Reboot
  <2>2. new \in ArmingRecords
    BY DEF ArmingRecords
  <2> HIDE DEF over, ended
  <2>3. arming' \in [A!Armings -> ArmingRecords] /\ merchants' \in [A!Armings -> MerchantStates]
    BY <1>1, <1>2, <1>3, <2>1, <2>2 DEF MerchantStates
  <2>4. A!TypeOK'
    BY <1>1, <2>3 DEF A!TypeOK, ArmingRecords, MerchantStates
  <2>5. arming'[n].pc = "polling" /\ \A k \in A!Armings \ {n} : merchants'[k] # "starting"
    BY <1>1, <1>2, <1>3, <2>1
  <2>6. \A k \in A!Armings : merchants'[k] = "starting" \/ port' = k => Overseen(k)'
    BY <1>1, <2>5 DEF Overseen
  <2> QED BY <1>1, <2>4, <2>6 DEF ArmingInv, A!ClaimIsBacked
<1> QED BY <1>4, <1>5

(* Every step of the arming preserves the invariant. *)
LEMMA ArmingStep ==
  ASSUME ArmingInv, [A!Next]_armingVars
  PROVE  ArmingInv'
<1> USE ArmingTypes
<1>1. ASSUME NEW m \in Modes, A!Arm(m) PROVE ArmingInv'
  <2>1. A!Next1 \in A!Armings /\ arming[A!Next1].pc = "unused"
    BY <1>1, NextIsFree DEF A!Arm
  <2>2. /\ A!ArmMode(A!Next1, "request", m) /\ restarts' = 0
        /\ UNCHANGED <<mode, saved, overseen, port, warned>>
    BY <1>1 DEF A!Arm
  <2> QED BY <2>1, <2>2, ArmModeKeeps
<1>2. ASSUME NEW a \in A!Armings, A!Spawn(a) PROVE ArmingInv'
  <2>1. /\ arming' = [arming EXCEPT ![a].pc = "polling"] /\ stopping' = FALSE
        /\ merchants' = [merchants EXCEPT ![a] = "starting"]
        /\ UNCHANGED <<mode, merchant, restarts, saved, overseen, port, warned>>
    BY <1>2 DEF A!Spawn
  <2>2. /\ arming' \in [A!Armings -> ArmingRecords]
        /\ arming'[a].pc = "polling" /\ \A k \in A!Armings \ {a} : arming'[k] = arming[k]
    BY <2>1, ArmingMoves
  <2>3. A!TypeOK'
    BY <2>1, <2>2 DEF ArmingInv, A!TypeOK, ArmingRecords, MerchantStates
  <2>4. \A k \in A!Armings : merchants'[k] = "starting" \/ port' = k => Overseen(k)'
    BY <2>1, <2>2 DEF ArmingInv, Overseen
  <2> QED BY <2>1, <2>2, <2>3, <2>4 DEF ArmingInv, A!ClaimIsBacked, A!Pending
<1>3. ASSUME NEW k \in A!Armings, A!Listen(k) PROVE ArmingInv'
  <2>1. /\ merchants[k] = "starting"
        /\ \/ port = None /\ port' = k /\ merchants' = [merchants EXCEPT ![k] = "alive"]
           \/ port # None /\ port' = port /\ merchants' = [merchants EXCEPT ![k] = "dead"]
        /\ UNCHANGED <<mode, merchant, stopping, restarts, saved, arming, overseen, warned>>
    BY <1>3 DEF A!Listen
  <2>2. A!TypeOK'
    BY <2>1 DEF ArmingInv, A!TypeOK, MerchantStates
  <2>3. \A j \in A!Armings : merchants'[j] = "starting" \/ port' = j => Overseen(j)'
    BY <2>1 DEF ArmingInv, Overseen
  <2>4. A!ClaimIsBacked'
    BY <2>1 DEF A!ClaimIsBacked
  <2> QED BY <2>1, <2>2, <2>3, <2>4 DEF ArmingInv
<1>4. ASSUME NEW a \in A!Armings, A!Healthy(a) PROVE ArmingInv'
  <2>1. /\ port # None /\ overseen' = overseen \cup {a} /\ merchant' = a /\ mode' = arming[a].mode
        /\ arming' = [arming EXCEPT ![a].pc = "remembering"] /\ arming[a].pc = "polling"
        /\ UNCHANGED <<stopping, restarts, saved, merchants, port, warned>>
    BY <1>4 DEF A!Healthy
  <2>2. /\ arming' \in [A!Armings -> ArmingRecords]
        /\ \A k \in A!Armings \ {a} : arming'[k] = arming[k]
    BY <2>1, ArmingMoves
  <2>3. mode' \in Modes \cup {None}
    BY <2>1 DEF ArmingRecords
  <2>4. A!TypeOK'
    BY <2>1, <2>2, <2>3 DEF ArmingInv, A!TypeOK, ArmingRecords
  <2>5. \A k \in A!Armings : merchants'[k] = "starting" \/ port' = k => Overseen(k)'
    BY <2>1, <2>2 DEF ArmingInv, Overseen
  <2>6. stopping' => \E b \in A!Armings : arming'[b].pc = "settling"
    BY <2>1, <2>2 DEF ArmingInv
  <2>7. A!ClaimIsBacked'
    BY <2>1 DEF A!ClaimIsBacked
  <2> QED BY <2>4, <2>5, <2>6, <2>7 DEF ArmingInv
<1>5. ASSUME NEW a \in A!Armings, A!NotStarted(a) PROVE ArmingInv'
  <2>1. PICK pc \in {"forgetting", "done"} : arming' = [arming EXCEPT ![a].pc = pc]
    BY <1>5 DEF A!NotStarted
  <2>2. /\ port = None /\ arming[a].pc = "polling" /\ mode' \in {mode, None}
        /\ merchants' = [merchants EXCEPT ![a] = IF @ \in {"starting", "alive"} THEN "dying" ELSE @]
        /\ warned' \in BOOLEAN /\ (mode' = None \/ warned')
        /\ UNCHANGED <<merchant, stopping, restarts, saved, overseen, port>>
    BY <1>5 DEF A!NotStarted, A!Killed
  <2>3. /\ arming' \in [A!Armings -> ArmingRecords]
        /\ \A k \in A!Armings \ {a} : arming'[k] = arming[k]
    BY <2>1, ArmingMoves
  <2>4. merchants' \in [A!Armings -> MerchantStates] /\ merchants'[a] # "starting"
        /\ \A k \in A!Armings \ {a} : merchants'[k] = merchants[k]
    BY <2>2 DEF MerchantStates
  <2>5. A!TypeOK'
    BY <2>2, <2>3, <2>4 DEF ArmingInv, A!TypeOK, ArmingRecords, MerchantStates
  <2>6. \A k \in A!Armings : merchants'[k] = "starting" \/ port' = k => Overseen(k)'
    BY <2>2, <2>3, <2>4 DEF ArmingInv, Overseen
  <2>7. stopping' => \E b \in A!Armings : arming'[b].pc = "settling"
    BY <2>2, <2>3 DEF ArmingInv
  <2> QED BY <2>2, <2>5, <2>6, <2>7 DEF ArmingInv, A!ClaimIsBacked
<1>6. ASSUME NEW a \in A!Armings, A!Remember(a) PROVE ArmingInv'
  <2>1. /\ arming[a].pc \in {"remembering", "forgetting"}
        /\ arming' = [arming EXCEPT ![a].pc = "done"]
        /\ saved' = IF arming[a].pc = "remembering" THEN arming[a].mode ELSE None
        /\ UNCHANGED <<mode, merchant, stopping, restarts, merchants, overseen, port, warned>>
    BY <1>6 DEF A!Remember
  <2>2. /\ arming' \in [A!Armings -> ArmingRecords]
        /\ \A k \in A!Armings \ {a} : arming'[k] = arming[k]
    BY <2>1, ArmingMoves
  <2>3. saved' \in Modes \cup {None}
    BY <2>1 DEF ArmingRecords
  <2>4. A!TypeOK'
    BY <2>1, <2>2, <2>3 DEF ArmingInv, A!TypeOK, ArmingRecords
  <2>5. \A k \in A!Armings : merchants'[k] = "starting" \/ port' = k => Overseen(k)'
    BY <2>1, <2>2 DEF ArmingInv, Overseen
  <2>6. stopping' => \E b \in A!Armings : arming'[b].pc = "settling"
    BY <2>1, <2>2 DEF ArmingInv
  <2>7. A!Pending => A!Pending'
    BY <2>1, <2>2 DEF A!Pending
  <2> QED BY <2>1, <2>4, <2>5, <2>6, <2>7 DEF ArmingInv, A!ClaimIsBacked
<1>7. ASSUME NEW a \in A!Armings, A!Restart(a) PROVE ArmingInv'
  <2>1. arming[a].pc = "timer" /\ UNCHANGED <<mode, restarts, saved, overseen, port, warned>>
    BY <1>7 DEF A!Restart
  <2>2. CASE mode = None
    <3>1. arming' = [arming EXCEPT ![a].pc = "done"] /\ UNCHANGED <<merchant, stopping, merchants>>
      BY <1>7, <2>2 DEF A!Restart
    <3>2. /\ arming' \in [A!Armings -> ArmingRecords]
          /\ \A k \in A!Armings \ {a} : arming'[k] = arming[k]
      BY <3>1, ArmingMoves
    <3>3. A!TypeOK'
      BY <2>1, <3>1, <3>2 DEF ArmingInv, A!TypeOK, ArmingRecords
    <3>4. \A k \in A!Armings : merchants'[k] = "starting" \/ port' = k => Overseen(k)'
      BY <2>1, <3>1, <3>2 DEF ArmingInv, Overseen
    <3>5. stopping' => \E b \in A!Armings : arming'[b].pc = "settling"
      BY <2>1, <3>1, <3>2 DEF ArmingInv
    <3> QED BY <2>1, <2>2, <3>3, <3>4, <3>5 DEF ArmingInv, A!ClaimIsBacked
  <2>3. CASE mode # None
    <3>1. A!ArmMode(a, "restart", mode) /\ mode \in Modes
      BY <1>7, <2>3 DEF A!Restart
    <3> QED BY <2>1, <3>1, ArmModeKeeps
  <2> QED BY <2>2, <2>3
<1>8. ASSUME NEW k \in A!Armings, A!Die(k) PROVE ArmingInv'
  <2>1. /\ merchants' = [merchants EXCEPT ![k] = "dead"]
        /\ port' = IF port = k THEN None ELSE port
        /\ UNCHANGED <<mode, merchant, stopping, restarts, saved, arming, overseen, warned>>
    BY <1>8 DEF A!Die
  <2>2. A!TypeOK'
    BY <2>1 DEF ArmingInv, A!TypeOK, MerchantStates
  <2>3. \A j \in A!Armings : merchants'[j] = "starting" \/ port' = j => Overseen(j)'
    BY <2>1 DEF ArmingInv, Overseen
  <2>4. A!Pending => A!Pending'
    BY <2>1 DEF A!Pending
  <2>5. port = k => A!Pending'
    BY <2>1 DEF ArmingInv, Overseen, A!Pending
  <2> QED BY <2>1, <2>2, <2>3, <2>4, <2>5 DEF ArmingInv, A!ClaimIsBacked
<1>9. ASSUME NEW k \in A!Armings, A!Exit(k) PROVE ArmingInv'
  BY <1>9, StepExit
<1>10. CASE A!Reboot
  BY <1>10, StepReboot
<1>11. CASE UNCHANGED armingVars
  BY <1>11
  DEF armingVars, ArmingInv, A!TypeOK, Overseen, A!ClaimIsBacked, A!Pending
<1> QED BY <1>1, <1>2, <1>3, <1>4, <1>5, <1>6, <1>7, <1>8, <1>9, <1>10, <1>11 DEF A!Next

(* While the console says it is armed something answers on the merchant's port, or is
   about to be put there, for any interleaving of requests, kills, late exits,
   restarts and reboots, and however many of each. *)
THEOREM ArmedIsBacked == ConsoleSpec => []ClaimIsBacked
<1>1. ConsoleInit => ArmingInv
  <2> SUFFICES ASSUME A!Init PROVE ArmingInv
    BY DEF ConsoleInit
  <2>1. 0 \in 0..MaxRestarts /\ None \notin A!Armings
    BY ConsoleAssumption DEF ConsoleAssumption, A!ArmingAssumption, A!Armings
  <2>2. A!TypeOK
    BY <2>1 DEF A!Init, A!TypeOK, A!Unused
  <2> QED BY <2>1, <2>2 DEF A!Init, ArmingInv, A!ClaimIsBacked
<1>2. [ConsoleNext]_allVars => [A!Next]_armingVars
  BY DEF ConsoleNext, Others, allVars
<1>3. ArmingInv => ClaimIsBacked
  BY DEF ArmingInv, ClaimIsBacked
<1> QED BY <1>1, <1>2, <1>3, ArmingStep, PTL DEF ConsoleSpec
-----------------------------------------------------------------------------
(* Onboarding.  Setups, requests and restarts come in any order and never wait *)
(* for each other, so nothing may be assumed of the row, of CONNECT or of the  *)
(* other setups: the claim has to hold by what Watch and Boot decide alone.    *)

OnboardingInv == O!TypeOK /\ O!UnverifiableIsAsked

LEMMA OnboardingConstants ==
  /\ None \notin Databases
  /\ EnvKeys \in BOOLEAN /\ EnvExpected \in BOOLEAN
BY ConsoleAssumption DEF ConsoleAssumption, O!OnboardingAssumption

LEMMA OnboardingStarts == O!Init => OnboardingInv
BY DEF O!Init, OnboardingInv, O!TypeOK, O!UnverifiableIsAsked, O!NoRow, O!Forgotten, O!Off,
       O!Rows, O!Connections, O!Progress

(* Most steps leave the loops alone. *)
LEMMA LoopsStay ==
  ASSUME OnboardingInv, UNCHANGED loops, row' \in O!Rows, connect' \in O!Connections,
         setup' \in [Setups -> O!Progress], ownOpen' \in BOOLEAN
  PROVE  OnboardingInv'
BY DEF OnboardingInv, O!TypeOK, O!UnverifiableIsAsked

LEMMA OnboardingTypes ==
  ASSUME OnboardingInv
  PROVE  /\ row \in O!Rows /\ connect \in O!Connections /\ loops \in O!Loops \cup {None}
         /\ setup \in [Setups -> O!Progress] /\ ownOpen \in BOOLEAN
BY DEF OnboardingInv, O!TypeOK

(* A setup that goes on, or whose pool is opened or ended. *)
LEMMA SetupGoesOn ==
  ASSUME NEW s \in Setups, NEW r \in O!Progress,
         NEW next \in {"off", "db", "mapping", "backfill", "watch"}, NEW open \in BOOLEAN
  PROVE  /\ [r EXCEPT !.at = next] \in O!Progress
         /\ [r EXCEPT !.open = open] \in O!Progress
BY DEF O!Progress

(* What Replace leaves behind. *)
LEMMA ReplaceKeeps ==
  ASSUME OnboardingInv, NEW pool \in {"other"} \cup Setups, NEW db \in Databases \cup {None},
         NEW setups \in [Setups -> O!Progress], O!Replace(pool, db, setups)
  PROVE  /\ connect' \in O!Connections /\ setup' \in [Setups -> O!Progress]
         /\ ownOpen' \in BOOLEAN
<1>1. connect' \in O!Connections /\ ownOpen' \in BOOLEAN
  BY OnboardingTypes DEF O!Replace, O!Connections
<1>2. PICK ends \in BOOLEAN :
        setup' = [s \in Setups |->
          IF ends /\ connect.pool = s THEN [setups[s] EXCEPT !.open = FALSE] ELSE setups[s]]
  BY DEF O!Replace
<1>3. \A s \in Setups :
        setups[s] \in O!Progress /\ [setups[s] EXCEPT !.open = FALSE] \in O!Progress
  BY SetupGoesOn
<1> QED BY <1>1, <1>2, <1>3

(* ... and what a setup does that is over. *)
LEMMA OverKeeps ==
  ASSUME OnboardingInv, NEW s \in Setups, O!Over(s)
  PROVE  connect' \in O!Connections /\ setup' \in [Setups -> O!Progress]
<1>1. O!Off \in O!Progress
  BY DEF O!Off, O!Progress
<1> QED BY <1>1, OnboardingTypes DEF O!Over, O!Connections

LEMMA OnboardingStep == OnboardingInv /\ [O!Next]_onboardingVars => OnboardingInv'
<1> SUFFICES ASSUME OnboardingInv, [O!Next]_onboardingVars
             PROVE  OnboardingInv'
  OBVIOUS
<1> DEFINE Typed == /\ row \in O!Rows /\ connect \in O!Connections
                    /\ setup \in [Setups -> O!Progress] /\ ownOpen \in BOOLEAN
<1>0. Typed
  BY OnboardingTypes
<1>1. ASSUME NEW s \in Setups, NEW db \in Databases, O!Begin(s, db)
      PROVE  OnboardingInv'
  <2>1. [O!Off EXCEPT !.at = "db", !.db = db] \in O!Progress
    BY DEF O!Off, O!Progress
  <2> QED BY <1>0, <1>1, <2>1, LoopsStay DEF O!Begin
<1>2. ASSUME NEW s \in Setups, O!Fail(s)
      PROVE  OnboardingInv'
  BY <1>0, <1>2, OverKeeps, LoopsStay DEF O!Fail
<1>3. ASSUME NEW s \in Setups, O!ConnectDatabase(s)
      PROVE  OnboardingInv'
  <2> DEFINE setups == [setup EXCEPT ![s].at = "mapping", ![s].open = TRUE]
  <2>1. O!Replace(s, setup[s].db, setups) /\ UNCHANGED <<row, loops>>
    BY <1>3 DEF O!ConnectDatabase
  <2>2. setups \in [Setups -> O!Progress] /\ setup[s].db \in Databases \cup {None}
    BY <1>0 DEF O!Progress
  <2> HIDE DEF setups
  <2> QED BY <1>0, <2>1, <2>2, ReplaceKeeps, LoopsStay
<1>4. ASSUME NEW s \in Setups, NEW expected \in BOOLEAN, O!ArmMapping(s, expected)
      PROVE  OnboardingInv'
  <2> DEFINE newRow == [row EXCEPT !.confirmed = TRUE, !.expected = expected,
                                !.escalate = ~expected, !.db = setup[s].db]
             newSetup == [setup EXCEPT ![s].at = "backfill", ![s].expected = expected]
  <2>1. row' = newRow /\ UNCHANGED <<connect, loops, ownOpen>>
        /\ setup' = newSetup
    BY <1>4 DEF O!ArmMapping, O!Save
  <2>2. newRow \in O!Rows
    <3>1. setup[s].db \in Databases \cup {None}
      BY <1>0 DEF O!Progress
    <3> QED BY <1>0, <3>1 DEF O!Rows
  <2>3. newSetup \in [Setups -> O!Progress]
    BY <1>0 DEF O!Progress
  <2> QED BY <1>0, <2>1, <2>2, <2>3, LoopsStay
<1>5. ASSUME NEW s \in Setups, O!Backfill(s)
      PROVE  OnboardingInv'
  <2>1. [row EXCEPT !.backfill = TRUE] \in O!Rows
    BY <1>0 DEF O!Rows
  <2> QED BY <1>0, <1>5, <2>1, SetupGoesOn, LoopsStay DEF O!Backfill, O!Save
<1>6. ASSUME NEW s \in Setups, O!Watch(s)
      PROVE  OnboardingInv'
  <2> DEFINE expected == setup[s].expected
  <2>1. loops' = [expected |-> expected, escalate |-> ~expected]
        /\ UNCHANGED <<row, ownOpen>> /\ O!Over(s)
    BY <1>6 DEF O!Watch
  <2>2. expected \in BOOLEAN
    BY <1>0 DEF O!Progress
  <2> HIDE DEF expected
  <2>3. loops' \in O!Loops /\ O!UnverifiableIsAsked'
    BY <2>1, <2>2 DEF O!Loops, O!UnverifiableIsAsked
  <2> QED BY <1>0, <2>1, <2>3, OverKeeps DEF OnboardingInv, O!TypeOK
<1>7. ASSUME NEW db \in Databases, O!ConnectRequest(db)
      PROVE  OnboardingInv'
  <2>1. O!Replace("other", db, setup) /\ UNCHANGED <<row, loops>>
    BY <1>7 DEF O!ConnectRequest
  <2> QED BY <1>0, <2>1, ReplaceKeeps, LoopsStay
<1>8. ASSUME NEW b \in BOOLEAN, O!ActMapping(b) \/ O!ManualMapping(b)
      PROVE  OnboardingInv'
  <2>1. /\ [row EXCEPT !.confirmed = TRUE, !.expected = b, !.db = connect.url] \in O!Rows
        /\ [row EXCEPT !.confirmed = TRUE, !.expected = b, !.escalate = ~b] \in O!Rows
    BY <1>0 DEF O!Rows, O!Connections
  <2> QED BY <1>0, <1>8, <2>1, LoopsStay DEF O!ActMapping, O!ManualMapping, O!Save
<1>9. ASSUME O!Answers
      PROVE  OnboardingInv'
  <2>1. ASSUME NEW escalate \in BOOLEAN \cup {None}, NEW expected \in BOOLEAN,
               NEW confirmed \in BOOLEAN, O!Answer(escalate, expected, confirmed)
        PROVE  OnboardingInv'
    <3>1. [row EXCEPT !.expected = expected, !.confirmed = confirmed, !.escalate = escalate]
            \in O!Rows
      BY <1>0 DEF O!Rows
    <3> QED BY <1>0, <2>1, <3>1, LoopsStay DEF O!Answer, O!Save
  <2>2. /\ row.escalate \in BOOLEAN \cup {None} /\ row.expected \in BOOLEAN
        /\ row.confirmed \in BOOLEAN
    BY <1>0 DEF O!Rows
  <2> QED BY <1>9, <2>1, <2>2 DEF O!Answers
<1>10. ASSUME O!BackfillRequest
       PROVE  OnboardingInv'
  <2>1. [row EXCEPT !.backfill = TRUE] \in O!Rows
    BY <1>0 DEF O!Rows
  <2> QED BY <1>0, <1>10, <2>1, LoopsStay DEF O!BackfillRequest, O!Save
<1>11. ASSUME O!Reset
       PROVE  OnboardingInv'
  <2>1. O!NoRow \in O!Rows /\ O!Forgotten \in O!Connections
    BY DEF O!NoRow, O!Rows, O!Forgotten, O!Connections
  <2>2. \A s \in Setups : [setup[s] EXCEPT !.open = FALSE] \in O!Progress
    BY <1>0, SetupGoesOn
  <2>3. /\ loops' = None /\ connect' = O!Forgotten /\ row' \in O!Rows
        /\ setup' \in [Setups -> O!Progress] /\ UNCHANGED ownOpen
    BY <1>0, <1>11, <2>1, <2>2 DEF O!Reset
  <2> QED BY <1>0, <2>1, <2>3 DEF OnboardingInv, O!TypeOK, O!UnverifiableIsAsked
<1>12. ASSUME O!Boot
       PROVE  OnboardingInv'
  <2>1. O!Off \in O!Progress
    BY DEF O!Off, O!Progress
  <2>2. setup' \in [Setups -> O!Progress] /\ ownOpen' \in BOOLEAN /\ row' = row
    BY <1>12, <2>1 DEF O!Boot
  <2>3. /\ connect' \in O!Connections /\ loops' \in O!Loops \cup {None}
        /\ O!UnverifiableIsAsked'
    <3>1. CASE O!Ready
      <4>1. /\ loops' = [expected |-> row.expected \/ EnvExpected,
                         escalate |-> row.escalate = TRUE \/ ~row.expected]
            /\ connect' = [pool |-> IF row.db = None THEN "own" ELSE "other", url |-> row.db]
        BY <1>12, <3>1 DEF O!Boot, O!BootEscalates
      <4>2. row.db \in Databases \cup {None} /\ row.expected \in BOOLEAN
        BY <1>0 DEF O!Rows
      <4>3. connect' \in O!Connections
        BY <4>1, <4>2 DEF O!Connections
      <4>4. loops' \in O!Loops
        BY <4>1 DEF O!Loops
      <4>5. O!UnverifiableIsAsked'
        BY <4>1 DEF O!UnverifiableIsAsked
      <4> QED BY <4>3, <4>4, <4>5
    <3>2. CASE ~O!Ready
      BY <1>12, <3>2 DEF O!Boot, O!Forgotten, O!Connections, O!UnverifiableIsAsked
    <3> QED BY <3>1, <3>2
  <2> QED BY <1>0, <2>2, <2>3 DEF OnboardingInv, O!TypeOK
<1>13. CASE UNCHANGED onboardingVars
  BY <1>0, <1>13, LoopsStay DEF onboardingVars
<1> QED BY <1>1, <1>2, <1>3, <1>4, <1>5, <1>6, <1>7, <1>8, <1>9, <1>10, <1>11, <1>12, <1>13
        DEF O!Next, O!Understood

(* Whatever order setups, the conversation, the answers, resets and restarts came in,
   also at the same time, the loops that run over a table with no expected-amount
   column escalate before they write: server.js decides it when it starts them,
   web-command.js when it boots. *)
THEOREM UnverifiableAsks == ConsoleSpec => []UnverifiableIsAsked
<1>1. ConsoleInit => OnboardingInv
  BY OnboardingStarts DEF ConsoleInit
<1>2. [ConsoleNext]_allVars => [O!Next]_onboardingVars
  BY DEF ConsoleNext, Others, allVars
<1>3. OnboardingInv => UnverifiableIsAsked
  BY DEF OnboardingInv, UnverifiableIsAsked
<1> QED BY <1>1, <1>2, <1>3, OnboardingStep, PTL DEF ConsoleSpec
=============================================================================
