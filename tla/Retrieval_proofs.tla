-------------------------- MODULE Retrieval_proofs --------------------------
(***************************************************************************)
(* Slots, addresses and the limiter of Retrieval, for every number of       *)
(* handlers, clients and slots and whatever DNS answers.                    *)
(***************************************************************************)
EXTENDS Retrieval, Sums_proofs

Busy == {k \in Calls : Running(k)}

\* The invariant: the shape of the state, and that no slot is lost.
RInv == TypeOK /\ SlotsAddUp

LEMMA BusyIsFinite ==
  IsFiniteSet(Busy) /\ Cardinality(Busy) \in Nat
<1>1. IsFiniteSet(Busy)
  BY ConstantsAssumption, FS_Subset DEF Busy
<1>2. QED
  BY <1>1, FS_CardinalityType

\* A call that goes on, or starts nothing, leaves the slots alone.
LEMMA SlotsKept ==
  ASSUME RInv, NEW k \in Calls, \A j \in Calls \ {k} : call'[j] = call[j],
         Running(k)' <=> Running(k), free' = free
  PROVE  SlotsAddUp'
<1>1. Busy' = Busy
  BY DEF Busy, Running
<1>2. QED
  BY <1>1 DEF RInv, SlotsAddUp, Busy

LEMMA Bounds ==
  /\ Limit \in Nat /\ Limit > 0 /\ Period \in Nat /\ Period > 0
  /\ MaxConcurrent \in Nat /\ MaxConcurrent > 0 /\ Timeout \in Nat /\ Timeout > 0
  /\ MaxRedirects \in Nat
BY ConstantsAssumption

\* Writing one field of a call.
WithPc(s, pc) == [s EXCEPT !.pc = pc]
WithAddress(s, address) == [s EXCEPT !.address = address]
WithHops(s, hops) == [s EXCEPT !.hops = hops]
WithAge(s, age) == [s EXCEPT !.age = age]
WithStatus(s, status) == [s EXCEPT !.status = status]

LEMMA PcWritten ==
  ASSUME NEW s \in CallStates, NEW pc \in {"idle", "resolve", "request", "body", "answered"}
  PROVE  WithPc(s, pc) \in CallStates /\ WithPc(s, pc).pc = pc /\ WithPc(s, pc).hops = s.hops
BY DEF CallStates, WithPc

LEMMA AddressWritten ==
  ASSUME NEW s \in CallStates, NEW address \in Addresses
  PROVE  WithAddress(s, address) \in CallStates /\ WithAddress(s, address).pc = s.pc
BY DEF CallStates, WithAddress

LEMMA HopsWritten ==
  ASSUME NEW s \in CallStates, NEW hops \in 0 .. MaxRedirects
  PROVE  WithHops(s, hops) \in CallStates /\ WithHops(s, hops).pc = s.pc
BY DEF CallStates, WithHops

LEMMA AgeWritten ==
  ASSUME NEW s \in CallStates, NEW age \in 0 .. Timeout
  PROVE  WithAge(s, age) \in CallStates /\ WithAge(s, age).pc = s.pc
BY DEF CallStates, WithAge

LEMMA StatusWritten ==
  ASSUME NEW s \in CallStates, NEW status \in {200, 400, 429, 500, 502}
  PROVE  WithStatus(s, status) \in CallStates /\ WithStatus(s, status).pc = s.pc
BY DEF CallStates, WithStatus

LEMMA NoCallType == NoCall \in CallStates
BY Bounds DEF NoCall, CallStates

LEMMA AnsweredType ==
  ASSUME NEW status \in {200, 400, 429, 500, 502}
  PROVE  Answered(status) \in CallStates /\ Answered(status).pc = "answered"
<1>1. Answered(status) = WithStatus(WithPc(NoCall, "answered"), status)
  BY DEF Answered, WithPc, WithStatus
<1>2. QED
  BY <1>1, NoCallType, PcWritten, StatusWritten

\* Every end of a running call gives exactly its slot back.
LEMMA EndKeeps ==
  ASSUME RInv, NEW k \in Calls, Running(k),
         NEW status \in {200, 400, 429, 500, 502}, End(k, status)
  PROVE  /\ call' \in [Calls -> CallStates]
         /\ free' \in 0 .. MaxConcurrent
         /\ SlotsAddUp'
<1>1. /\ call \in [Calls -> CallStates] /\ free \in 0 .. MaxConcurrent
      /\ free + Cardinality(Busy) = MaxConcurrent /\ MaxConcurrent \in Nat
  BY ConstantsAssumption DEF RInv, TypeOK, SlotsAddUp, Busy
<1>2. call' = [call EXCEPT ![k] = Answered(status)] /\ free' = free + 1
  BY DEF End
<1>3. call' \in [Calls -> CallStates] /\ call'[k].pc = "answered"
      /\ \A j \in Calls \ {k} : call'[j] = call[j]
  BY <1>1, <1>2, AnsweredType
<1>4. Busy' = Busy \ {k} /\ k \in Busy
  BY <1>3 DEF Busy, Running
<1>5. Cardinality(Busy') = Cardinality(Busy) - 1
  BY <1>4, BusyIsFinite, FS_RemoveElement
<1>6. Cardinality(Busy') \in Nat
  BY <1>4, BusyIsFinite, FS_RemoveElement, FS_CardinalityType
<1>7. free' \in 0 .. MaxConcurrent /\ free' + Cardinality(Busy') = MaxConcurrent
  BY <1>1, <1>2, <1>5, <1>6, BusyIsFinite
<1>8. QED
  BY <1>3, <1>7 DEF SlotsAddUp, Busy

\* A call that is continued keeps its slot.
LEMMA GoOnKeeps ==
  ASSUME RInv, NEW k \in Calls, Running(k), NEW s \in CallStates,
         s.pc \in {"resolve", "request", "body"},
         call' = [call EXCEPT ![k] = s], free' = free
  PROVE  /\ call' \in [Calls -> CallStates]
         /\ free' \in 0 .. MaxConcurrent
         /\ SlotsAddUp'
<1>1. call \in [Calls -> CallStates] /\ free \in 0 .. MaxConcurrent
  BY DEF RInv, TypeOK
<1>2. /\ call' \in [Calls -> CallStates] /\ call'[k] = s
      /\ \A j \in Calls \ {k} : call'[j] = call[j]
  BY <1>1
<1>3. Running(k)' <=> Running(k)
  BY <1>2 DEF Running
<1>4. QED
  BY <1>1, <1>2, <1>3, SlotsKept

\* RateLimiter.check keeps its windows within Limit and Period.
LEMMA CountType ==
  ASSUME TypeOK, NEW c \in Clients, Count(c)
  PROVE  /\ windows' \in [Clients -> Windows \cup {Null}]
         /\ recent' \in [Clients -> [0 .. Period - 1 -> Nat]]
<1>1. Limit \in Nat \ {0} /\ Period \in Nat \ {0}
  BY ConstantsAssumption
<1>2. /\ windows \in [Clients -> Windows \cup {Null}]
      /\ recent \in [Clients -> [0 .. Period - 1 -> Nat]]
  BY DEF TypeOK
<1>3. ASSUME ~ Refused(c) PROVE [Window(c) EXCEPT !.count = @ + 1] \in Windows
  <2>1. Window(c).age \in 0 .. Period /\ Window(c).count \in 0 .. Limit
        /\ DOMAIN Window(c) = {"age", "count"}
        /\ Window(c) = [age |-> Window(c).age, count |-> Window(c).count]
    BY <1>1, <1>2 DEF Window, Windows, Expired
  <2>2. Window(c).count + 1 \in 1 .. Limit
    BY <1>1, <1>3, <2>1 DEF Refused
  <2>3. QED
    BY <2>1, <2>2 DEF Windows
<1>4. windows' \in [Clients -> Windows \cup {Null}]
  BY <1>2, <1>3 DEF Count
<1>5. 0 \in 0 .. Period - 1
  BY <1>1
<1>6. recent' \in [Clients -> [0 .. Period - 1 -> Nat]]
  <2>1. CASE recent' = recent
    BY <1>2, <2>1
  <2>2. CASE recent' = [recent EXCEPT ![c][0] = @ + 1]
    <3>1. recent[c] \in [0 .. Period - 1 -> Nat]
      BY <1>2
    <3>2. [recent[c] EXCEPT ![0] = @ + 1] \in [0 .. Period - 1 -> Nat]
      <4>1. recent[c][0] \in Nat
        BY <1>5, <3>1, Zenon
      <4>2. recent[c][0] + 1 \in Nat
        BY <4>1
      <4>3. QED
        BY <3>1, <4>2
    <3>3. recent' = [recent EXCEPT ![c] = [recent[c] EXCEPT ![0] = @ + 1]]
      BY <2>2
    <3>4. QED
      BY <1>2, <3>2, <3>3
  <2>3. QED
    BY <2>1, <2>2 DEF Count
<1>7. QED
  BY <1>4, <1>6

LEMMA ArriveKeeps ==
  ASSUME RInv, NEW k \in Calls, NEW c \in Clients, NEW url \in Urls, Arrive(k, c, url)
  PROVE  RInv'
<1>1. /\ call \in [Calls -> CallStates] /\ free \in 0 .. MaxConcurrent
      /\ free + Cardinality(Busy) = MaxConcurrent
      /\ MaxConcurrent \in Nat /\ ~ Running(k)
  BY ConstantsAssumption DEF RInv, TypeOK, SlotsAddUp, Busy, Arrive
<1>2. /\ windows' \in [Clients -> Windows \cup {Null}]
      /\ recent' \in [Clients -> [0 .. Period - 1 -> Nat]]
  BY CountType DEF RInv, Arrive
<1>3. ASSUME NEW status \in {400, 429},
             call' = [call EXCEPT ![k] = Answered(status)], free' = free
      PROVE  RInv'
  <2>1. /\ call' \in [Calls -> CallStates] /\ call'[k].pc = "answered"
        /\ \A j \in Calls \ {k} : call'[j] = call[j]
    BY <1>1, <1>3, AnsweredType
  <2>2. SlotsAddUp'
    BY <1>1, <1>3, <2>1, SlotsKept DEF Running
  <2>3. QED
    BY <1>1, <1>2, <1>3, <2>1, <2>2 DEF RInv, TypeOK
<1>4. ASSUME free # 0, call' = [call EXCEPT ![k] = [NoCall EXCEPT !.pc = "resolve"]],
             free' = free - 1
      PROVE  RInv'
  <2>1. [NoCall EXCEPT !.pc = "resolve"] \in CallStates
        /\ [NoCall EXCEPT !.pc = "resolve"].pc = "resolve"
    BY ConstantsAssumption DEF NoCall, CallStates
  <2>2. /\ call' \in [Calls -> CallStates] /\ call'[k].pc = "resolve"
        /\ \A j \in Calls \ {k} : call'[j] = call[j]
    BY <1>1, <1>4, <2>1
  <2>3. Busy' = Busy \cup {k} /\ k \notin Busy
    BY <1>1, <2>2 DEF Busy, Running
  <2>4. Cardinality(Busy') = Cardinality(Busy) + 1
    BY <2>3, BusyIsFinite, FS_AddElement
  <2>5. free' \in 0 .. MaxConcurrent /\ free' + Cardinality(Busy') = MaxConcurrent
    BY <1>1, <1>4, <2>4, BusyIsFinite
  <2>6. QED
    BY <1>2, <2>2, <2>5 DEF RInv, TypeOK, SlotsAddUp, Busy
<1>5. QED
  BY <1>3, <1>4 DEF Arrive

\* The steps of a running call.
CallStep(k) == Resolve(k) \/ Respond(k) \/ ReadBody(k) \/ Expire(k)

LEMMA FollowKeeps ==
  ASSUME RInv, NEW k \in Calls, Running(k), NEW location \in Locations, Follow(k, location)
  PROVE  /\ call' \in [Calls -> CallStates]
         /\ free' \in 0 .. MaxConcurrent
         /\ SlotsAddUp'
<1>1. CASE \E status \in {400, 500, 502} : End(k, status)
  BY <1>1, EndKeeps
<1>2. CASE /\ call[k].hops # MaxRedirects
           /\ call' = [call EXCEPT ![k].pc = "resolve", ![k].hops = @ + 1]
           /\ free' = free
  <2> DEFINE s == [call[k] EXCEPT !.pc = "resolve", !.hops = @ + 1]
  <2>1. call \in [Calls -> CallStates] /\ call[k] \in CallStates
    BY DEF RInv, TypeOK
  <2>2. call[k].hops + 1 \in 0 .. MaxRedirects
    BY <1>2, <2>1, ConstantsAssumption DEF CallStates
  <2>3. s \in CallStates /\ s.pc = "resolve"
    <3>1. s = WithHops(WithPc(call[k], "resolve"), call[k].hops + 1)
      BY DEF WithHops, WithPc
    <3>2. WithPc(call[k], "resolve") \in CallStates /\ WithPc(call[k], "resolve").pc = "resolve"
      BY <2>1, PcWritten
    <3>3. QED
      BY <2>2, <3>1, <3>2, HopsWritten
  <2>4. call' = [call EXCEPT ![k] = s]
    BY <1>2, <2>1
  <2>5. QED
    BY <1>2, <2>3, <2>4, GoOnKeeps
<1>3. QED
  BY <1>1, <1>2 DEF Follow

LEMMA CallStepKeeps ==
  ASSUME RInv, NEW k \in Calls, CallStep(k)
  PROVE  RInv'
<1>1. call \in [Calls -> CallStates] /\ call[k] \in CallStates
  BY DEF RInv, TypeOK
<1>2. Running(k) /\ UNCHANGED <<windows, recent>>
  BY DEF CallStep, Resolve, Respond, ReadBody, Expire, Running
<1>3. SUFFICES /\ call' \in [Calls -> CallStates]
               /\ free' \in 0 .. MaxConcurrent
               /\ SlotsAddUp'
  BY <1>2 DEF RInv, TypeOK
<1>4. CASE \E status \in {200, 400, 500, 502} : End(k, status)
  BY <1>2, <1>4, EndKeeps
<1>5. CASE \E lookup \in Lookups :
             /\ call' = [call EXCEPT ![k].pc = "request", ![k].address = lookup[1]]
             /\ free' = free
  <2>1. PICK lookup \in Lookups :
          /\ call' = [call EXCEPT ![k].pc = "request", ![k].address = lookup[1]]
          /\ free' = free
    BY <1>5
  <2> DEFINE s == [call[k] EXCEPT !.pc = "request", !.address = lookup[1]]
  <2>2. s \in CallStates /\ s.pc = "request"
    <3>1. s = WithAddress(WithPc(call[k], "request"), lookup[1])
      BY DEF WithAddress, WithPc
    <3>2. lookup[1] \in Addresses
      BY DEF Addresses
    <3>3. WithPc(call[k], "request") \in CallStates /\ WithPc(call[k], "request").pc = "request"
      BY <1>1, PcWritten
    <3>4. QED
      BY <3>1, <3>2, <3>3, AddressWritten
  <2>3. call' = [call EXCEPT ![k] = s]
    BY <1>1, <2>1
  <2>4. QED
    BY <1>2, <2>1, <2>2, <2>3, GoOnKeeps
<1>6. CASE call' = [call EXCEPT ![k].pc = "body"] /\ free' = free
  <2> DEFINE s == [call[k] EXCEPT !.pc = "body"]
  <2>1. s \in CallStates /\ s.pc = "body"
    BY <1>1 DEF CallStates
  <2>2. call' = [call EXCEPT ![k] = s]
    BY <1>1, <1>6
  <2>3. QED
    BY <1>2, <1>6, <2>1, <2>2, GoOnKeeps
<1>7. CASE \E location \in Locations : Follow(k, location)
  BY <1>2, <1>7, FollowKeeps
<1>8. QED
  BY <1>4, <1>5, <1>6, <1>7 DEF CallStep, Resolve, Respond, ReadBody, Expire

LEMMA TickKeeps ==
  ASSUME RInv, Tick
  PROVE  RInv'
<1>1. /\ call \in [Calls -> CallStates] /\ free \in 0 .. MaxConcurrent
      /\ windows \in [Clients -> Windows \cup {Null}]
      /\ recent \in [Clients -> [0 .. Period - 1 -> Nat]]
      /\ Period \in Nat \ {0} /\ Timeout \in Nat \ {0}
  BY ConstantsAssumption DEF RInv, TypeOK
<1>2. ASSUME NEW k \in Calls
      PROVE  /\ call'[k] \in CallStates
             /\ Running(k)' <=> Running(k)
  <2>1. call'[k] = IF Running(k) THEN [call[k] EXCEPT !.age = @ + 1] ELSE call[k]
    BY DEF Tick
  <2>2. Running(k) => call[k].age + 1 \in 0 .. Timeout
    BY <1>1 DEF Tick, CallStates
  <2>3. Running(k) => call'[k] = WithAge(call[k], call[k].age + 1)
    BY <2>1 DEF WithAge
  <2>4. CASE Running(k)
    BY <1>1, <2>2, <2>3, <2>4, AgeWritten DEF Running
  <2>5. CASE ~ Running(k)
    BY <1>1, <2>1, <2>5 DEF Running
  <2>6. QED
    BY <2>4, <2>5
<1>3. call' \in [Calls -> CallStates]
  BY <1>2 DEF Tick
<1>4. windows' \in [Clients -> Windows \cup {Null}]
  <2>1. ASSUME NEW c \in Clients, windows[c] # Null
        PROVE  [windows[c] EXCEPT !.age = Older(@, Period)] \in Windows
    <3>1. windows[c] \in Windows
      BY <1>1, <2>1
    <3>2. Older(windows[c].age, Period) \in 0 .. Period
      BY <1>1, <3>1 DEF Older, Windows
    <3>3. QED
      BY <3>1, <3>2 DEF Windows
  <2>2. QED
    BY <2>1 DEF Tick
<1>5. recent' \in [Clients -> [0 .. Period - 1 -> Nat]]
  <2>1. ASSUME NEW c \in Clients, NEW age \in 0 .. Period - 1
        PROVE  (IF age = 0 THEN 0 ELSE recent[c][age - 1]) \in Nat
    <3>1. age # 0 => age - 1 \in 0 .. Period - 1
      BY <1>1
    <3>2. QED
      BY <1>1, <3>1
  <2>2. QED
    BY <2>1 DEF Tick
<1>6. Busy' = Busy /\ free' = free
  BY <1>2 DEF Busy, Tick
<1>7. QED
  BY <1>1, <1>3, <1>4, <1>5, <1>6 DEF RInv, TypeOK, SlotsAddUp, Busy

LEMMA RetrievalInit == Init => RInv
<1>1. SUFFICES ASSUME Init PROVE RInv
  OBVIOUS
<1>2. Busy = {}
  BY <1>1 DEF Init, Busy, Running, NoCall
<1>3. SlotsAddUp
  <2>1. Cardinality(Busy) = 0
    BY <1>2, FS_EmptySet
  <2>2. QED
    BY <1>1, <2>1, ConstantsAssumption DEF Init, SlotsAddUp, Busy
<1>4. TypeOK
  BY <1>1, ConstantsAssumption DEF Init, TypeOK, NoCall, CallStates
<1>5. QED
  BY <1>3, <1>4 DEF RInv

LEMMA RetrievalNext == RInv /\ [Next]_rvars => RInv'
<1>1. SUFFICES ASSUME RInv, [Next]_rvars PROVE RInv'
  OBVIOUS
<1>2. CASE UNCHANGED rvars
  BY <1>1, <1>2 DEF rvars, RInv, TypeOK, SlotsAddUp, Running
<1>3. QED
  BY <1>1, <1>2, ArriveKeeps, CallStepKeeps, TickKeeps DEF Next, CallStep

\* The shape of the state, in particular that no call is redirected more than
\* MAX_REDIRECTS times or outlives the timeout.
THEOREM RetrievalIsTyped == Spec => []TypeOK
<1>1. RInv => TypeOK
  BY DEF RInv
<1>2. QED
  BY <1>1, RetrievalInit, RetrievalNext, PTL DEF Spec

\* No way a retrieval ends, by a result, an error, a timeout or an exception
\* that nobody converts, keeps a slot or gives back two.
THEOREM NoSlotIsLost == Spec => []SlotsAddUp
<1>1. RInv => SlotsAddUp
  BY DEF RInv
<1>2. QED
  BY <1>1, RetrievalInit, RetrievalNext, PTL DEF Spec

\* Whatever DNS answers, and to whatever hosts the redirects lead, only
\* addresses that passed the check are contacted.
THEOREM PublicOnly == Spec => []OnlyPublicContacted
<1>1. Init => OnlyPublicContacted
  BY DEF Init, OnlyPublicContacted
<1>2. OnlyPublicContacted /\ [Next]_rvars => OnlyPublicContacted'
  <2>1. SUFFICES ASSUME OnlyPublicContacted, [Next]_rvars PROVE OnlyPublicContacted'
    OBVIOUS
  <2>2. ASSUME NEW k \in Calls, Resolve(k) PROVE OnlyPublicContacted'
    <3>1. \A lookup \in Lookups : Checked(lookup) => lookup[1] \in Public
      BY ConstantsAssumption DEF Checked
    <3>2. QED
      BY <2>1, <2>2, <3>1 DEF Resolve, OnlyPublicContacted
  <2>3. CASE contacted' = contacted
    BY <2>1, <2>3 DEF OnlyPublicContacted
  <2>4. QED
    BY <2>1, <2>2, <2>3 DEF Next, Arrive, Respond, ReadBody, Expire, Tick, rvars
<1>3. QED
  BY <1>1, <1>2, PTL DEF Spec

\* A client that was refused and waits as long as it was told finds its window
\* expired, for every limit and every period.
THEOREM WaitingSuffices == Spec => []RetryAfterSuffices
<1>1. TypeOK => RetryAfterSuffices
  <2>1. SUFFICES ASSUME TypeOK, NEW c \in Clients, Refused(c)
                 PROVE  /\ RetryAfter(c) \in 1 .. Period
                        /\ Expired([windows[c] EXCEPT !.age = @ + RetryAfter(c)])
    BY DEF RetryAfterSuffices
  <2>2. Limit \in Nat \ {0} /\ Period \in Nat \ {0} /\ windows[c] \in Windows \cup {Null}
    BY <2>1, ConstantsAssumption DEF TypeOK
  <2>3. ~ Expired(windows[c])
    BY <2>1, <2>2 DEF Refused, Window
  <2>4. windows[c] \in Windows /\ windows[c].age \in 0 .. Period /\ windows[c].age < Period
        /\ Window(c) = windows[c]
    BY <2>2, <2>3 DEF Expired, Windows, Window
  <2>5. RetryAfter(c) = Period - windows[c].age
    BY <2>4 DEF RetryAfter
  <2>6. [windows[c] EXCEPT !.age = @ + RetryAfter(c)].age = Period
    BY <2>2, <2>4, <2>5 DEF Windows
  <2>7. QED
    BY <2>2, <2>4, <2>5, <2>6 DEF Expired
<1>2. QED
  BY <1>1, RetrievalIsTyped, PTL

----------------------------------------------------------------------------
\* The fixed window of the limiter.

\* A window and the requests counted lately fit together: while the window is
\* open, the requests since its start are the ones it counts, its first is as
\* old as the window, and those before it are what is left of the window before,
\* whose first is too old.  Without an open window only what is left of the last
\* one is there, and nothing was counted just now.
WindowFits(w, r) ==
  IF Expired(w)
  THEN r[0] = 0 /\ Total(r, 0 .. Period - 1) <= Limit - 1
  ELSE /\ r[w.age] >= 1
       /\ Total(r, 0 .. w.age) <= w.count
       /\ Total(r, 0 .. Period - 1) <= w.count + Limit - 1

WindowInv == \A c \in Clients : WindowFits(windows[c], recent[c])

Histories == [0 .. Period - 1 -> Nat]

LEMMA HistoryTotal ==
  ASSUME NEW r \in Histories, NEW n \in Int, n <= Period - 1
  PROVE  Total(r, 0 .. n) \in Nat /\ Total(r, 0 .. n) <= Total(r, 0 .. Period - 1)
<1>1. IsFiniteSet(0 .. Period - 1) /\ IsFiniteSet(0 .. n)
  BY Bounds, FiniteUpTo
<1>2. 0 .. n \in SUBSET (0 .. Period - 1) /\ \A i \in 0 .. Period - 1 : r[i] \in Nat
  BY Bounds DEF Histories
<1>3. QED
  BY <1>1, <1>2, TotalNat, TotalSubset

\* A window that is open has room for its count in the bound.
LEMMA FitsBound ==
  ASSUME NEW w \in Windows \cup {Null}, NEW r \in Histories, WindowFits(w, r)
  PROVE  Total(r, 0 .. Period - 1) <= 2 * Limit - 1
<1>1. Total(r, 0 .. Period - 1) \in Nat
  BY Bounds, HistoryTotal
<1>2. CASE Expired(w)
  BY <1>1, <1>2, Bounds DEF WindowFits
<1>3. CASE ~ Expired(w)
  <2>1. w.count \in 1 .. Limit
    BY <1>3 DEF Expired, Windows
  <2>2. QED
    BY <1>1, <1>3, <2>1, Bounds DEF WindowFits
<1>4. QED
  BY <1>2, <1>3

\* One more request now makes every sum that ends later one larger.
LEMMA CountedNow ==
  ASSUME NEW r \in Histories, NEW n \in 0 .. Period - 1
  PROVE  /\ [r EXCEPT ![0] = @ + 1] \in Histories
         /\ Total([r EXCEPT ![0] = @ + 1], 0 .. n) = Total(r, 0 .. n) + 1
<1> DEFINE q == [r EXCEPT ![0] = @ + 1]
<1>1. 0 \in 0 .. Period - 1 /\ 0 \in 0 .. n /\ r[0] \in Nat
  BY Bounds DEF Histories
<1>2. q \in Histories
  BY <1>1 DEF Histories
<1>3. q[0] = r[0] + 1 /\ \A i \in 0 .. Period - 1 : i # 0 => q[i] = r[i]
  BY <1>1 DEF Histories
<1> HIDE DEF q
<1>4. /\ \A i \in 0 .. n : i \in 0 .. Period - 1 /\ r[i] \in Nat
      /\ \A i \in 0 .. n : q[i] \in Nat
  BY <1>2, Bounds DEF Histories
<1>5. IsFiniteSet(0 .. n) /\ IsFiniteSet((0 .. n) \ {0})
  <2>1. n \in Int
    BY Bounds
  <2>2. QED
    BY <2>1, FiniteUpTo, FS_RemoveElement
<1>6. Total(q, 0 .. n) = q[0] + Total(q, (0 .. n) \ {0})
  BY <1>1, <1>4, <1>5, TotalStep
<1>7. Total(r, 0 .. n) = r[0] + Total(r, (0 .. n) \ {0})
  BY <1>1, <1>4, <1>5, TotalStep
<1>8. Total(r, (0 .. n) \ {0}) = Total(q, (0 .. n) \ {0})
  <2>1. \A i \in (0 .. n) \ {0} : r[i] \in Nat /\ r[i] = q[i]
    BY <1>3, <1>4
  <2>2. QED
    BY <1>5, <2>1, TotalSame
<1>9. Total(r, (0 .. n) \ {0}) \in Nat
  BY <1>4, <1>5, TotalNat
<1>10. Total(q, 0 .. n) = Total(r, 0 .. n) + 1
  BY <1>1, <1>3, <1>6, <1>7, <1>8, <1>9
<1>11. QED
  BY <1>2, <1>10 DEF q

\* The window a request of the client is counted in.
Opened(w) == IF Expired(w) THEN [age |-> 0, count |-> 0] ELSE w

LEMMA FitsCounted ==
  ASSUME NEW w \in Windows \cup {Null}, NEW r \in Histories, WindowFits(w, r),
         Opened(w).count < Limit
  PROVE  WindowFits([Opened(w) EXCEPT !.count = @ + 1], [r EXCEPT ![0] = @ + 1])
<1> DEFINE v == [Opened(w) EXCEPT !.count = @ + 1]
           q == [r EXCEPT ![0] = @ + 1]
<1>1. Period - 1 \in 0 .. Period - 1 /\ 0 \in 0 .. Period - 1
  BY Bounds
<1>2. Total(q, 0 .. Period - 1) = Total(r, 0 .. Period - 1) + 1
  BY <1>1, CountedNow
<1>3. q[0] = r[0] + 1 /\ r[0] \in Nat
  BY <1>1 DEF Histories
<1>4. CASE Expired(w)
  <2>1. v.age = 0 /\ v.count = 1 /\ v # Null /\ ~ Expired(v)
    <3>1. v = [age |-> 0, count |-> 1]
      BY <1>4 DEF Opened
    <3>2. v \in Windows
      BY <3>1, Bounds DEF Windows
    <3>3. QED
      BY <3>1, <3>2, NullAssumption, Bounds DEF Expired
  <2>2. Total(q, 0 .. 0) = Total(r, 0 .. 0) + 1
    BY <1>1, CountedNow
  <2>3. Total(r, 0 .. 0) = r[0]
    <3>1. Total(r, 0 .. 0) = r[0] + Total(r, 0 .. 0 - 1)
      <4>1. \A i \in 0 .. 0 : r[i] \in Nat
        BY <1>3
      <4>2. QED
        BY <4>1, TotalUpTo
    <3>2. 0 .. 0 - 1 = {}
      OBVIOUS
    <3>3. QED
      BY <1>3, <3>1, <3>2, TotalEmpty
  <2>4. r[0] = 0 /\ Total(r, 0 .. Period - 1) <= Limit - 1
    BY <1>4 DEF WindowFits
  <2>5. Total(r, 0 .. Period - 1) \in Nat
    BY Bounds, HistoryTotal
  <2> HIDE DEF v, q
  <2>6. WindowFits(v, q)
    BY <1>2, <1>3, <2>1, <2>2, <2>3, <2>4, <2>5, Bounds DEF WindowFits
  <2>7. QED
    BY <2>6 DEF v, q
<1>5. CASE ~ Expired(w)
  <2>1. w \in Windows /\ w.age \in 0 .. Period - 1 /\ w.count \in 1 .. Limit
    BY <1>5, Bounds DEF Expired, Windows
  <2>2. v.age = w.age /\ v.count = w.count + 1 /\ v \in Windows
    <3>1. Opened(w) = w /\ w.count + 1 \in 1 .. Limit
      BY <1>5, <2>1, Bounds DEF Opened
    <3>2. v = [w EXCEPT !.count = w.count + 1]
      BY <3>1
    <3>3. QED
      BY <2>1, <3>1, <3>2 DEF Windows
  <2>3. ~ Expired(v)
    BY <2>1, <2>2, Bounds, NullAssumption DEF Expired
  <2>4. Total(q, 0 .. w.age) = Total(r, 0 .. w.age) + 1
    BY <2>1, CountedNow
  <2>5. q[w.age] >= r[w.age] /\ r[w.age] \in Nat /\ q[w.age] \in Nat
    BY <1>3, <2>1 DEF Histories
  <2>6. /\ r[w.age] >= 1 /\ Total(r, 0 .. w.age) <= w.count
        /\ Total(r, 0 .. Period - 1) <= w.count + Limit - 1
    BY <1>5 DEF WindowFits
  <2>7. Total(r, 0 .. w.age) \in Nat /\ Total(r, 0 .. Period - 1) \in Nat
    BY <2>1, Bounds, HistoryTotal
  <2> HIDE DEF v, q
  <2>8. /\ q[v.age] >= 1
        /\ Total(q, 0 .. v.age) <= v.count
        /\ Total(q, 0 .. Period - 1) <= v.count + Limit - 1
    <3>1. w.count \in Nat /\ Limit \in Nat
      BY <2>1, Bounds
    <3>2. q[v.age] >= 1
      BY <2>2, <2>5, <2>6
    <3>3. Total(q, 0 .. v.age) <= v.count
      BY <2>2, <2>4, <2>6, <2>7, <3>1
    <3>4. Total(q, 0 .. Period - 1) <= v.count + Limit - 1
      BY <1>2, <2>2, <2>6, <2>7, <3>1
    <3>5. QED
      BY <3>2, <3>3, <3>4
  <2>9. WindowFits(v, q)
    BY <2>3, <2>8 DEF WindowFits
  <2>10. QED
    BY <2>9 DEF v, q
<1>6. QED
  BY <1>4, <1>5

\* Time passes: every request is one older, and what is Period old is forgotten.
Aged(w) == IF w = Null THEN Null ELSE [w EXCEPT !.age = Older(@, Period)]

AgedHistory(r) == [age \in 0 .. Period - 1 |-> IF age = 0 THEN 0 ELSE r[age - 1]]

LEMMA HistoryAges ==
  ASSUME NEW r \in Histories, NEW n \in 0 .. Period - 1
  PROVE  /\ AgedHistory(r) \in Histories
         /\ Total(AgedHistory(r), 0 .. n) = Total(r, 0 .. n - 1)
<1>1. \A i \in 1 .. Period - 1 : i - 1 \in 0 .. Period - 1
  BY Bounds
<1>2. AgedHistory(r) \in Histories
  BY <1>1 DEF AgedHistory, Histories
<1>3. AgedHistory(r)[0] = 0 /\ \A i \in 1 .. n : AgedHistory(r)[i] = r[i - 1]
  BY Bounds DEF AgedHistory
<1>4. n \in Nat /\ \A i \in 0 .. n - 1 : r[i] \in Nat
  BY Bounds DEF Histories
<1>5. Total(AgedHistory(r), 0 .. n) = Total(r, 0 .. n - 1)
  BY <1>3, <1>4, TotalShift
<1>6. QED
  BY <1>2, <1>5

LEMMA FitsAged ==
  ASSUME NEW w \in Windows \cup {Null}, NEW r \in Histories, WindowFits(w, r)
  PROVE  WindowFits(Aged(w), AgedHistory(r))
<1> DEFINE q == AgedHistory(r)
<1>1. Period - 1 \in 0 .. Period - 1 /\ q[0] = 0
  BY Bounds DEF AgedHistory
<1>2. Total(q, 0 .. Period - 1) = Total(r, 0 .. (Period - 1) - 1)
  BY <1>1, HistoryAges
<1>3. /\ Total(r, 0 .. (Period - 1) - 1) \in Nat
      /\ Total(r, 0 .. (Period - 1) - 1) <= Total(r, 0 .. Period - 1)
      /\ Total(r, 0 .. Period - 1) \in Nat
  BY Bounds, HistoryTotal
<1> HIDE DEF q
<1>4. CASE Expired(w)
  <2>1. Expired(Aged(w))
    BY <1>4, Bounds DEF Expired, Aged, Older, Windows
  <2>2. Total(r, 0 .. Period - 1) <= Limit - 1
    BY <1>4 DEF WindowFits
  <2>3. QED
    BY <1>1, <1>2, <1>3, <2>1, <2>2, Bounds DEF WindowFits, q
<1>5. CASE ~ Expired(w)
  <2>1. w \in Windows /\ w.age \in 0 .. Period - 1 /\ w.count \in 1 .. Limit /\ w # Null
    BY <1>5, Bounds DEF Expired, Windows
  <2>2. /\ Aged(w).age = w.age + 1 /\ Aged(w).count = w.count
        /\ Aged(w) \in Windows /\ Aged(w) # Null
    <3>1. Older(w.age, Period) = w.age + 1 /\ w.age + 1 \in 0 .. Period
      BY <2>1, Bounds DEF Older
    <3>2. Aged(w) = [w EXCEPT !.age = w.age + 1]
      BY <2>1, <3>1 DEF Aged
    <3>3. QED
      BY <2>1, <3>1, <3>2, NullAssumption DEF Windows
  <2>3. /\ r[w.age] >= 1 /\ Total(r, 0 .. w.age) <= w.count
        /\ Total(r, 0 .. Period - 1) <= w.count + Limit - 1
    BY <1>5 DEF WindowFits
  <2>4. CASE w.age + 1 < Period
    <3>1. ~ Expired(Aged(w))
      BY <2>1, <2>2, <2>4, Bounds DEF Expired
    <3>2. q[w.age + 1] = r[w.age]
      BY <2>1, <2>4, Bounds DEF q, AgedHistory
    <3>3. Total(q, 0 .. w.age + 1) = Total(r, 0 .. (w.age + 1) - 1)
      BY <2>1, <2>4, Bounds, HistoryAges DEF q
    <3>4. (w.age + 1) - 1 = w.age
      BY <2>1
    <3>5. Total(q, 0 .. Period - 1) <= w.count + Limit - 1
      BY <1>2, <1>3, <2>1, <2>3, Bounds
    <3>6. QED
      BY <2>2, <2>3, <3>1, <3>2, <3>3, <3>4, <3>5 DEF WindowFits, q
  <2>5. CASE w.age + 1 = Period
    <3>1. Expired(Aged(w))
      BY <2>1, <2>2, <2>5, Bounds DEF Expired
    <3>2. Total(r, 0 .. Period - 1) = r[Period - 1] + Total(r, 0 .. (Period - 1) - 1)
      <4>1. Period - 1 \in Nat /\ \A i \in 0 .. Period - 1 : r[i] \in Nat
        BY Bounds DEF Histories
      <4>2. QED
        BY <4>1, TotalUpTo
    <3>3. w.age = Period - 1 /\ r[Period - 1] \in Nat
      BY <1>1, <2>1, <2>5, Bounds DEF Histories
    <3>4. Total(r, 0 .. (Period - 1) - 1) <= Limit - 1
      BY <1>3, <2>1, <2>3, <3>2, <3>3, Bounds
    <3>5. QED
      BY <1>1, <1>2, <3>1, <3>4 DEF WindowFits, q
  <2>6. QED
    BY <2>1, <2>4, <2>5, Bounds
<1>6. QED
  BY <1>4, <1>5

LEMMA WindowInvNext == TypeOK /\ WindowInv /\ [Next]_rvars => WindowInv'
<1>1. SUFFICES ASSUME TypeOK, WindowInv, [Next]_rvars, NEW d \in Clients
               PROVE  WindowFits(windows'[d], recent'[d])
  BY DEF WindowInv
<1>2. windows[d] \in Windows \cup {Null} /\ recent[d] \in Histories
      /\ WindowFits(windows[d], recent[d])
  BY <1>1 DEF TypeOK, Histories, WindowInv
<1>3. ASSUME NEW c \in Clients, Count(c) PROVE WindowFits(windows'[d], recent'[d])
  <2>1. CASE d = c /\ ~ Refused(c)
    <3>1. windows'[d] = [Opened(windows[d]) EXCEPT !.count = @ + 1]
      BY <1>3, <2>1 DEF Count, Window, Opened
    <3>2. recent'[d] = [recent[d] EXCEPT ![0] = @ + 1]
      BY <1>1, <1>3, <2>1 DEF Count, TypeOK
    <3>3. Opened(windows[d]).count < Limit
      <4>1. Opened(windows[d]).count \in Nat
        BY <1>2, Bounds DEF Opened, Expired, Windows
      <4>2. QED
        BY <2>1, <4>1, Bounds DEF Refused, Window, Opened
    <3>4. QED
      BY <1>2, <3>1, <3>2, <3>3, FitsCounted
  <2>2. CASE ~ (d = c /\ ~ Refused(c))
    <3>1. windows'[d] = IF Expired(windows[d]) THEN Null ELSE windows[d]
      BY <1>3, <2>2 DEF Count
    <3>2. recent'[d] = recent[d]
      BY <1>1, <1>3, <2>2 DEF Count, TypeOK
    <3>3. Expired(Null)
      BY DEF Expired
    <3>4. QED
      BY <1>2, <3>1, <3>2, <3>3 DEF WindowFits
  <2>3. QED
    BY <2>1, <2>2
<1>4. CASE Tick
  <2>1. windows'[d] = Aged(windows[d]) /\ recent'[d] = AgedHistory(recent[d])
    BY <1>4 DEF Tick, Aged, AgedHistory
  <2>2. QED
    BY <1>2, <2>1, FitsAged
<1>5. CASE UNCHANGED <<windows, recent>>
  BY <1>2, <1>5
<1>6. QED
  BY <1>1, <1>3, <1>4, <1>5 DEF Next, Arrive, Resolve, Respond, ReadBody, Expire, rvars

LEMMA WindowInvInit == Init => WindowInv
<1>1. SUFFICES ASSUME Init, NEW c \in Clients PROVE WindowFits(windows[c], recent[c])
  BY DEF WindowInv
<1>2. recent[c] = [age \in 0 .. Period - 1 |-> 0] /\ Expired(windows[c])
  BY <1>1 DEF Init, Expired
<1>3. Total(recent[c], 0 .. Period - 1) = 0
  <2>1. IsFiniteSet(0 .. Period - 1) /\ \A i \in 0 .. Period - 1 : recent[c][i] = 0
    BY <1>2, Bounds, FiniteUpTo
  <2>2. QED
    BY <2>1, TotalZero
<1>4. QED
  BY <1>2, <1>3, Bounds DEF WindowFits

\* Within any Period a client is let through fewer than twice Limit times, for
\* every limit, period and number of clients.
THEOREM WindowsAreLimited == Spec => []LessThanTwoWindows
<1>1. TypeOK /\ WindowInv => LessThanTwoWindows
  BY FitsBound DEF TypeOK, WindowInv, LessThanTwoWindows, Histories
<1>2. QED
  BY <1>1, WindowInvInit, WindowInvNext, RetrievalIsTyped, PTL DEF Spec
=============================================================================
