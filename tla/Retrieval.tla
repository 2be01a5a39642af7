----------------------------- MODULE Retrieval -----------------------------
(***************************************************************************)
(* GET /retrieve: the rate limiter, the slots of the endpoint and the       *)
(* retrieval itself, with DNS, other hosts and time as its environment.     *)
(*                                                                          *)
(* One step is what a handler does between two awaits.  Time is kept as     *)
(* ages: a tick makes every timer one unit older.                           *)
(***************************************************************************)
EXTENDS Naturals, Sequences, FiniteSets, Sums

CONSTANTS
  Clients,        \* the addresses requests come from
  Calls,          \* the handlers that may be at work at a time
  Limit,          \* requests_per_minute
  Period,         \* the window of the rate limiter
  MaxConcurrent,  \* the slots
  MaxRedirects,   \* MAX_REDIRECTS
  Timeout,        \* TIMEOUT
  Public,         \* the addresses _public accepts
  Lookups,        \* the lists of addresses a host may resolve to
  Null

ASSUME ConstantsAssumption ==
  /\ {Limit, Period, MaxConcurrent, Timeout} \subseteq Nat \ {0}
  /\ MaxRedirects \in Nat
  /\ IsFiniteSet(Calls)
  /\ \A lookup \in Lookups : 1 \in DOMAIN lookup

\* A URL is one httpx cannot parse, one whose scheme, port or credentials are
\* not allowed, or one whose host is looked up.
Urls == {"unparsable", "forbidden", "host"}

\* What a redirect points to: a URL, or no Location header at all.
Locations == Urls \cup {"missing"}

VARIABLES
  windows,    \* RateLimiter.windows, the age of a window for its start
  recent,     \* history: how many requests were counted, by their age
  free,       \* the value of the semaphore
  call,       \* the handlers
  contacted   \* history: the addresses requests were sent to

rvars == <<windows, recent, free, call, contacted>>

Running(k) == call[k].pc \in {"resolve", "request", "body"}

NoCall == [pc |-> "idle", address |-> Null, hops |-> 0, age |-> 0, status |-> 0]

Init ==
  /\ windows = [c \in Clients |-> Null]
  /\ recent = [c \in Clients |-> [age \in 0 .. Period - 1 |-> 0]]
  /\ free = MaxConcurrent
  /\ call = [k \in Calls |-> NoCall]
  /\ contacted = {}

----------------------------------------------------------------------------
\* RateLimiter.check

\* Slip: a window that is exactly over is kept.
ExpiredLate(window) == window # Null => window.age > Period

Expired(window) == window # Null => window.age >= Period

Window(c) == IF Expired(windows[c]) THEN [age |-> 0, count |-> 0] ELSE windows[c]

Refused(c) == Window(c).count >= Limit

RetryAfter(c) == Period - Window(c).age

\* Slip: every counted request starts the window anew.
CountSliding(c) ==
  /\ windows' = [d \in Clients |->
       IF d = c /\ ~ Refused(c) THEN [age |-> 0, count |-> 1]
       ELSE IF Expired(windows[d]) THEN Null ELSE windows[d]]
  /\ recent' = IF Refused(c) THEN recent ELSE [recent EXCEPT ![c][0] = @ + 1]

\* The expired windows of all clients are dropped, and the request is counted
\* unless it is refused.
Count(c) ==
  /\ windows' = [d \in Clients |->
       IF d = c /\ ~ Refused(c) THEN [Window(c) EXCEPT !.count = @ + 1]
       ELSE IF Expired(windows[d]) THEN Null ELSE windows[d]]
  /\ recent' = IF Refused(c) THEN recent ELSE [recent EXCEPT ![c][0] = @ + 1]

----------------------------------------------------------------------------
\* retrieve_document

Answered(status) == [NoCall EXCEPT !.pc = "answered", !.status = status]

\* Slip: an error nobody converts keeps its slot.
EndLeaking(k, status) ==
  /\ call' = [call EXCEPT ![k] = Answered(status)]
  /\ free' = IF status = 500 THEN free ELSE free + 1

\* The call is answered and gives its slot back, whatever ended it.
End(k, status) ==
  /\ call' = [call EXCEPT ![k] = Answered(status)]
  /\ free' = free + 1

\* Up to the first await.  A request that finds no slot has been counted.  No
\* await lies between looking at the slots and taking one.
Arrive(k, c, url) ==
  /\ ~ Running(k)
  /\ Count(c)
  /\ IF Refused(c) \/ free = 0
     THEN call' = [call EXCEPT ![k] = Answered(429)] /\ UNCHANGED free
     ELSE IF url # "host"
     THEN call' = [call EXCEPT ![k] = Answered(400)] /\ UNCHANGED free
     ELSE /\ call' = [call EXCEPT ![k] = [NoCall EXCEPT !.pc = "resolve"]]
          /\ free' = free - 1
  /\ UNCHANGED contacted

\* Slip: one public address is enough.
CheckedOne(lookup) == \E i \in DOMAIN lookup : lookup[i] \in Public

Checked(lookup) == \A i \in DOMAIN lookup : lookup[i] \in Public

\* _checked_address, once DNS has answered, and the request to the address that
\* was checked.  DNS may fail, and a name getaddrinfo cannot encode raises a
\* UnicodeError, which nobody converts.
Resolve(k) ==
  /\ call[k].pc = "resolve"
  /\ \/ \E status \in {500, 502} : End(k, status) /\ UNCHANGED contacted
     \/ \E lookup \in Lookups :
          IF Checked(lookup)
          THEN /\ call' = [call EXCEPT ![k].pc = "request",
                                       ![k].address = lookup[1]]
               /\ contacted' = contacted \cup {lookup[1]}
               /\ UNCHANGED free
          ELSE End(k, 400) /\ UNCHANGED contacted
  /\ UNCHANGED <<windows, recent>>

\* Slip: one redirect more than MAX_REDIRECTS is followed.
FollowMore(k, location) ==
  \/ location \in {"missing", "unparsable"} /\ End(k, 500)
  \/ /\ location \in {"forbidden", "host"}
     /\ IF call[k].hops > MaxRedirects THEN End(k, 502)
        ELSE IF location = "forbidden" THEN End(k, 400)
        ELSE /\ call' = [call EXCEPT ![k].pc = "resolve", ![k].hops = @ + 1]
             /\ UNCHANGED free

\* A redirect: the Location header is read and joined, which raises what nobody
\* converts, and the loop goes on while it has rounds left.
Follow(k, location) ==
  \/ location \in {"missing", "unparsable"} /\ End(k, 500)
  \/ /\ location \in {"forbidden", "host"}
     /\ IF call[k].hops = MaxRedirects THEN End(k, 502)
        ELSE IF location = "forbidden" THEN End(k, 400)
        ELSE /\ call' = [call EXCEPT ![k].pc = "resolve", ![k].hops = @ + 1]
             /\ UNCHANGED free

\* The response line and headers arrive, or the connection fails.
Respond(k) ==
  /\ call[k].pc = "request"
  /\ \/ End(k, 502)
     \/ call' = [call EXCEPT ![k].pc = "body"] /\ UNCHANGED free
     \/ \E location \in Locations : Follow(k, location)
  /\ UNCHANGED <<windows, recent, contacted>>

\* The body ends: a document, or one too large, not JSON or cut off.  JSON that
\* is nested too deeply raises a RecursionError, which nobody converts.
ReadBody(k) ==
  /\ call[k].pc = "body"
  /\ \E status \in {200, 500, 502} : End(k, status)
  /\ UNCHANGED <<windows, recent, contacted>>

\* Slip: only the wait for a response is timed.
ExpireRequest(k) ==
  /\ call[k].pc = "request"
  /\ call[k].age = Timeout
  /\ End(k, 502)
  /\ UNCHANGED <<windows, recent, contacted>>

\* asyncio.timeout, which covers all of _follow.
Expire(k) ==
  /\ Running(k)
  /\ call[k].age = Timeout
  /\ End(k, 502)
  /\ UNCHANGED <<windows, recent, contacted>>

----------------------------------------------------------------------------
Older(age, cap) == IF age < cap THEN age + 1 ELSE cap

\* Time passes, but not past a timer that has gone off: the event loop fires it.
Tick ==
  /\ \A k \in Calls : Running(k) => call[k].age < Timeout
  /\ windows' = [c \in Clients |->
       IF windows[c] = Null THEN Null
       ELSE [windows[c] EXCEPT !.age = Older(@, Period)]]
  /\ recent' = [c \in Clients |-> [age \in 0 .. Period - 1 |->
       IF age = 0 THEN 0 ELSE recent[c][age - 1]]]
  /\ call' = [k \in Calls |-> IF Running(k) THEN [call[k] EXCEPT !.age = @ + 1]
                              ELSE call[k]]
  /\ UNCHANGED <<free, contacted>>

Next ==
  \/ \E k \in Calls : \/ \E c \in Clients, url \in Urls : Arrive(k, c, url)
                      \/ Resolve(k) \/ Respond(k) \/ ReadBody(k) \/ Expire(k)
  \/ Tick

Spec == Init /\ [][Next]_rvars

\* The clock runs and timers that went off are served.  Nothing is assumed of
\* DNS and the other hosts: they may stay silent.
FairSpec == Spec /\ WF_rvars(Tick) /\ \A k \in Calls : WF_rvars(Expire(k))

----------------------------------------------------------------------------
Windows == [age : 0 .. Period, count : 1 .. Limit]

ASSUME NullAssumption == Null \notin Windows

Addresses == {lookup[1] : lookup \in Lookups}

CallStates ==
  [pc : {"idle", "resolve", "request", "body", "answered"},
   address : Addresses \cup {Null},
   hops : 0 .. MaxRedirects, age : 0 .. Timeout,
   status : {0, 200, 400, 429, 500, 502}]

\* The shape of the state: no call follows more than MAX_REDIRECTS redirects,
\* or outlives the timeout.
TypeOK ==
  /\ windows \in [Clients -> Windows \cup {Null}]
  /\ recent \in [Clients -> [0 .. Period - 1 -> Nat]]
  /\ free \in 0 .. MaxConcurrent
  /\ call \in [Calls -> CallStates]

\* At most MaxConcurrent retrievals run, and a slot is taken exactly as long as
\* its retrieval runs: no way out of the handler keeps one.
SlotsAddUp == free + Cardinality({k \in Calls : Running(k)}) = MaxConcurrent

\* Whatever DNS answers at each look-up, of the first host and of every host a
\* redirect names, requests go to public addresses only.
OnlyPublicContacted == contacted \subseteq Public

\* The README: "Each client can make 10 requests per minute".  Read of any
\* minute, the limiter does not keep it.
AtMostLimitPerPeriod ==
  \A c \in Clients : Total(recent[c], 0 .. Period - 1) <= Limit

\* What the limiter does keep.  Its window is fixed, not sliding: within one
\* period a client may get all but the first request of one window and all of
\* the next, but never two windows full.
LessThanTwoWindows ==
  \A c \in Clients : Total(recent[c], 0 .. Period - 1) <= 2 * Limit - 1

\* A refused client that waits as long as Retry-After says is counted again.
RetryAfterSuffices ==
  \A c \in Clients :
    Refused(c) => /\ RetryAfter(c) \in 1 .. Period
                  /\ Expired([windows[c] EXCEPT !.age = @ + RetryAfter(c)])

\* The README: a rejected URL is answered with 400, a failed retrieval with
\* 502, too many requests with 429.
DocumentedAnswers ==
  \A k \in Calls : call[k].pc = "answered" => call[k].status \in {200, 400, 429, 502}

\* Every retrieval ends, even when no host ever answers.
EveryRetrievalEnds == \A k \in Calls : Running(k) ~> ~ Running(k)
=============================================================================
