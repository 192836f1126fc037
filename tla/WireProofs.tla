----------------------------- MODULE WireProofs -----------------------------
(***************************************************************************)
(* What a sender may conclude, how long it takes, and what a reader makes  *)
(* of the bytes, for any policy, any report, any route, any endpoint and   *)
(* any loss, cut or delay of what it is sent.                              *)
(***************************************************************************)
EXTENDS Wire, FiniteSetTheorems, SequenceTheorems, WellFoundedInduction, TLAPS

-----------------------------------------------------------------------------
(* Time and memory.                                                           *)

\* The time of the attempts before this one, of the delay before the first, and of k
\* waits of this one.
Before(k) ==
    jitter.max + (attempt - 1) * 2 * Timeout + (attempt - 1) * MaxBackoff + k * Timeout

Steps == {"build", "jitter", "launch", "connect", "write", "read", "answered", "failed", "done"}

TimeInv ==
    /\ pc \in Steps /\ route \in Route /\ attempt \in Nat \ {0} /\ elapsed \in Int
    /\ pc \in {"build", "jitter", "launch"} => elapsed = 0 /\ attempt = 1
    /\ pc = "jitter" => route = "onion"
    /\ route # "onion" => attempt = 1 /\ elapsed \in {0, Timeout}
    /\ pc = "connect" => elapsed <= Before(0)
    /\ pc \in {"write", "read"} => elapsed <= Before(1)
    /\ elapsed <= Before(2)

\* Every attempt has its stream, and what comes back on it is one of the answers.
StreamsInv ==
    /\ DOMAIN stream = Attempts
    /\ \A a \in Attempts : /\ DOMAIN stream[a] = {"sent", "got", "reply"}
                           /\ stream[a].reply \in Answers \cup {<<>>}

BoundInv == TimeInv /\ StreamsInv /\ attempt \in Attempts /\ Len(buf) < MaxResponse + Chunk

\* The bounds are natural numbers.
LEMMA Naturals ==
    /\ Timeout \in Nat /\ MaxBackoff \in Nat /\ BaseBackoff \in Nat /\ MaxAttempts \in Nat
    /\ MaxResponse \in Nat /\ Chunk \in Nat /\ Chunk > 0
    /\ jitter.max \in Nat /\ jitter.min \in Nat
BY WireAssumption DEF jitter, JitterBounds

\* A product of natural numbers, one step further.
LEMMA OneMore ==
    ASSUME NEW a \in Nat \ {0}, NEW t \in Nat
    PROVE  /\ (a - 1) * 2 * t \in Nat /\ (a - 1) * t \in Nat
           /\ a * 2 * t = (a - 1) * 2 * t + 2 * t /\ a * t = (a - 1) * t + t
OBVIOUS

\* The cap on the backoff holds for any attempt (config.rs:72).
LEMMA BackoffCapped ==
    ASSUME NEW n \in Nat \ {0}
    PROVE  backoff_for(n) \in Int /\ backoff_for(n) <= MaxBackoff
<1> DEFINE e == IF n <= 33 THEN n - 1 ELSE 32
           wait == BaseBackoff * 2 ^ e
<1>1. e \in Nat
  OBVIOUS
<1> HIDE DEF e
<1>2. 2 ^ e \in Int
  BY <1>1
<1>3. wait \in Int /\ MaxBackoff \in Nat
  BY <1>2, Naturals
<1>4. backoff_for(n) = IF wait < MaxBackoff THEN wait ELSE MaxBackoff
  BY DEF backoff_for, e
<1> HIDE DEF wait
<1> QED
  BY <1>3, <1>4

\* What the waits add up to at an attempt, and at the one after it.
LEMMA Waits ==
    ASSUME attempt \in Nat \ {0}
    PROVE  /\ Before(0) \in Nat /\ Before(1) = Before(0) + Timeout
           /\ Before(2) = Before(0) + 2 * Timeout
           /\ attempt' = attempt => Before(0)' = Before(0) /\ Before(1)' = Before(1) /\ Before(2)' = Before(2)
           /\ attempt' = attempt + 1 => /\ Before(0)' = Before(2) + MaxBackoff
                                        /\ Before(2)' = Before(0)' + 2 * Timeout
<1> DEFINE A == (attempt - 1) * 2 * Timeout
           B == (attempt - 1) * MaxBackoff
<1>1. /\ A \in Nat /\ B \in Nat
      /\ attempt * 2 * Timeout = A + 2 * Timeout /\ attempt * MaxBackoff = B + MaxBackoff
  BY Naturals, OneMore
<1>2. /\ Before(0) = jitter.max + A + B /\ Before(1) = jitter.max + A + B + Timeout
      /\ Before(2) = jitter.max + A + B + 2 * Timeout
  BY <1>1, Naturals DEF Before
<1>3. attempt' = attempt => Before(0)' = Before(0) /\ Before(1)' = Before(1) /\ Before(2)' = Before(2)
  BY DEF Before, jitter
<1>4. ASSUME attempt' = attempt + 1
      PROVE  /\ Before(0)' = jitter.max + attempt * 2 * Timeout + attempt * MaxBackoff
             /\ Before(2)' = jitter.max + attempt * 2 * Timeout + attempt * MaxBackoff + 2 * Timeout
  <2>1. attempt' - 1 = attempt
    BY <1>4
  <2>2. /\ attempt * 2 * Timeout \in Nat /\ attempt * MaxBackoff \in Nat
    BY <1>1, Naturals
  <2> HIDE DEF A, B
  <2> QED
    BY <2>1, <2>2, Naturals DEF Before, jitter
<1>5. Before(0) \in Nat /\ Before(1) = Before(0) + Timeout /\ Before(2) = Before(0) + 2 * Timeout
  <2> HIDE DEF A, B
  <2> QED
    BY <1>1, <1>2, Naturals
<1>6. ASSUME attempt' = attempt + 1
      PROVE  Before(0)' = Before(2) + MaxBackoff /\ Before(2)' = Before(0)' + 2 * Timeout
  <2> DEFINE C == attempt * 2 * Timeout
             D == attempt * MaxBackoff
  <2>1. /\ Before(0)' = jitter.max + C + D /\ Before(2)' = jitter.max + C + D + 2 * Timeout
        /\ C = A + 2 * Timeout /\ D = B + MaxBackoff
    BY <1>1, <1>4, <1>6
  <2> HIDE DEF A, B, C, D
  <2> QED
    BY <1>1, <1>2, <2>1, Naturals
<1> QED
  BY <1>3, <1>5, <1>6

\* Whatever is read, it is less than the cap and a chunk (http.rs:93-110).
LEMMA ReadIsCapped ==
    ASSUME NEW line \in Answers \cup {<<>>}, NEW n \in 0 .. Len(line)
    PROVE  /\ Capped(n) \in 0 .. Len(line) /\ Capped(n) < MaxResponse + Chunk
           /\ Len(SubSeq(line, 1, Capped(n))) = Capped(n)
<1>1. Len(line) \in Nat /\ DOMAIN line = 1 .. Len(line)
  BY WireAssumption
<1>2. Capped(n) \in 0 .. Len(line) /\ Capped(n) < MaxResponse + Chunk
  BY <1>1, Naturals DEF Capped
<1>3. Len(SubSeq(line, 1, Capped(n))) = Capped(n)
  <2> DEFINE S == {line[i] : i \in 1 .. Len(line)}
  <2>1. \A i \in 1 .. Capped(n) : line[i] \in S
    BY <1>1, <1>2
  <2>2. Capped(n) \in Int /\ 1 \in Int
    BY <1>1, <1>2
  <2> HIDE DEF S
  <2>3. Len(SubSeq(line, 1, Capped(n))) = IF 1 <= Capped(n) THEN Capped(n) - 1 + 1 ELSE 0
    BY <2>1, <2>2, SubSeqProperties
  <2> QED
    BY <1>1, <1>2, <2>3
<1> QED
  BY <1>2, <1>3

\* A wait of at most d adds at most d, and a send by a library takes one timeout in all.
LEMMA WaitAdds ==
    ASSUME NEW d \in Int, Takes(d), elapsed \in Int
    PROVE  /\ elapsed' \in Int
           /\ route = "onion" => elapsed' = elapsed + d
           /\ route # "onion" => elapsed' = Timeout
BY Naturals DEF Takes, agent

\* At first no attempt has begun, and nothing is held.
LEMMA BoundInit == Init => BoundInv
<1> SUFFICES ASSUME Init PROVE BoundInv
  OBVIOUS
<1>1. /\ attempt = 1 /\ elapsed = 0 /\ pc = "build" /\ buf = <<>>
      /\ stream = [a \in Attempts |-> Unused]
  BY DEF Init
<1>2. 1 \in Attempts
  BY Naturals DEF Attempts
<1>3. StreamsInv
  BY <1>1 DEF StreamsInv, Unused
<1>4. Len(buf) = 0
  BY <1>1
<1>5. Before(0) \in Nat /\ Before(2) = Before(0) + 2 * Timeout
  BY <1>1, Waits
<1>6. route \in Route
  BY WireAssumption DEF Init
<1> QED
  BY <1>1, <1>2, <1>3, <1>4, <1>5, <1>6, Naturals DEF BoundInv, TimeInv, Steps

\* The streams are of one form, whoever acts on them.
LEMMA StreamsNext == BoundInv /\ [Next]_vars => StreamsInv'
<1> SUFFICES ASSUME BoundInv, [Next]_vars PROVE StreamsInv'
  OBVIOUS
<1>1. StreamsInv /\ attempt \in Attempts
  BY DEF BoundInv
<1>2. CASE Write
  BY <1>1, <1>2 DEF Write, StreamsInv
<1>3. CASE Arrive
  BY <1>1, <1>3 DEF Arrive, StreamsInv
<1>4. CASE Answer
  BY <1>1, <1>4 DEF Answer, StreamsInv
<1>5. CASE stream' = stream
  BY <1>1, <1>5 DEF StreamsInv
<1> QED
  BY <1>2, <1>3, <1>4, <1>5 DEF Next, Send, File, vars, Build, StubSend, Seal, BuildLink, Launch, Jitter,
     Connect, Read, ReadTooLate, Classify, Pull, Show, ParseItem

\* Each step takes what is allowed to it.
LEMMA TimeNext == BoundInv /\ [Next]_vars => BoundInv'
<1> SUFFICES ASSUME BoundInv, [Next]_vars PROVE BoundInv'
  OBVIOUS
<1>1. /\ pc \in Steps /\ route \in Route /\ attempt \in Nat \ {0} /\ elapsed \in Int
      /\ pc \in {"build", "jitter", "launch"} => elapsed = 0 /\ attempt = 1
      /\ pc = "jitter" => route = "onion"
      /\ route # "onion" => attempt = 1 /\ elapsed \in {0, Timeout}
      /\ pc = "connect" => elapsed <= Before(0)
      /\ pc \in {"write", "read"} => elapsed <= Before(1)
      /\ elapsed <= Before(2)
      /\ attempt \in Attempts /\ Len(buf) < MaxResponse + Chunk
  BY DEF BoundInv, TimeInv
<1>2. /\ Before(0) \in Nat /\ Before(1) = Before(0) + Timeout /\ Before(2) = Before(0) + 2 * Timeout
      /\ attempt' = attempt => Before(0)' = Before(0) /\ Before(1)' = Before(1) /\ Before(2)' = Before(2)
      /\ attempt' = attempt + 1 => Before(0)' = Before(2) + MaxBackoff /\ Before(2)' = Before(0)' + 2 * Timeout
  BY <1>1, Waits
<1>3. StreamsInv /\ StreamsInv'
  BY StreamsNext DEF BoundInv
<1>4. Len(<<>>) < MaxResponse + Chunk
  BY Naturals
<1>5. CASE Build \/ StubSend \/ Seal \/ BuildLink \/ Launch
  <2>1. /\ pc \in {"build", "launch"} /\ pc' \in {"jitter", "launch", "connect", "done"}
        /\ pc' = "jitter" => route = "onion"
        /\ UNCHANGED <<attempt, elapsed, buf, route>>
    <3>1. CASE Build
      BY <1>1, <3>1 DEF Build, Finish, Quiet, Route
    <3>2. CASE StubSend \/ Seal
      BY <3>2 DEF StubSend, Seal, Finish, Quiet
    <3>3. CASE BuildLink \/ Launch
      BY <3>3 DEF BuildLink, Launch, Finish, Quiet
    <3> QED
      BY <1>5, <3>1, <3>2, <3>3
  <2> QED
    BY <1>1, <1>2, <1>3, <2>1, Naturals DEF BoundInv, TimeInv, Steps
<1>6. CASE Jitter
  <2>1. PICK d \in jitter.min .. jitter.max : Takes(d)
    BY <1>6 DEF Jitter
  <2>2. /\ pc = "jitter" /\ pc' = "connect" /\ UNCHANGED <<attempt, buf, route>>
    BY <1>6 DEF Jitter, Quiet
  <2>3. elapsed' = d /\ d \in Int /\ d <= jitter.max
    BY <1>1, <2>1, <2>2, WaitAdds, Naturals
  <2>4. jitter.max <= Before(0)
    BY <1>1, <2>2, Naturals DEF Before
  <2> QED
    BY <1>1, <1>2, <1>3, <2>2, <2>3, <2>4, Naturals DEF BoundInv, TimeInv, Steps
<1>7. CASE Connect
  <2>1. /\ pc = "connect" /\ pc' \in {"write", "failed"} /\ buf' = <<>>
        /\ UNCHANGED <<attempt, route>>
        /\ Takes(Timeout) \/ (pc' = "failed" /\ Takes(0))
    BY <1>7 DEF Connect, Tried, Quiet
  <2>2. /\ elapsed' \in Int
        /\ route # "onion" => elapsed' = Timeout
        /\ elapsed' <= Before(1)
    BY <1>1, <1>2, <2>1, WaitAdds, Naturals
  <2> QED
    BY <1>1, <1>2, <1>3, <1>4, <2>1, <2>2, Naturals DEF BoundInv, TimeInv, Steps
<1>8. CASE Write
  <2>1. /\ pc = "write" /\ pc' \in {"read", "failed"} /\ UNCHANGED <<attempt, buf, route>> /\ Takes(0)
    BY <1>8 DEF Write, Quiet
  <2>2. /\ elapsed' \in Int
        /\ route # "onion" => elapsed' = Timeout
        /\ elapsed' <= Before(1)
    BY <1>1, <1>2, <2>1, WaitAdds, Naturals
  <2> QED
    BY <1>1, <1>2, <1>3, <2>1, <2>2, Naturals DEF BoundInv, TimeInv, Steps
<1>9. CASE Read \/ ReadTooLate
  <2>1. /\ pc = "read" /\ pc' \in {"answered", "failed"} /\ UNCHANGED <<attempt, route>> /\ Takes(Timeout)
    BY <1>9 DEF Read, ReadTooLate, Quiet
  <2>2. /\ elapsed' \in Int
        /\ route # "onion" => elapsed' = Timeout
        /\ elapsed' <= Before(2)
    BY <1>1, <1>2, <2>1, WaitAdds, Naturals
  <2>3. Len(buf') < MaxResponse + Chunk
    <3>1. CASE ReadTooLate
      BY <1>1, <3>1 DEF ReadTooLate
    <3>2. CASE Read
      <4>1. stream[attempt].reply \in Answers \cup {<<>>}
        BY <1>1, <1>3 DEF StreamsInv
      <4>2. PICK n \in 0 .. Len(stream[attempt].reply) : buf' = SubSeq(stream[attempt].reply, 1, Capped(n))
        BY <3>2 DEF Read
      <4> QED
        BY <4>1, <4>2, ReadIsCapped
    <3> QED
      BY <1>9, <3>1, <3>2
  <2> QED
    BY <1>1, <1>2, <1>3, <2>1, <2>2, <2>3, Naturals DEF BoundInv, TimeInv, Steps
<1>10. CASE Classify
  <2>1. pc \in {"answered", "failed"} /\ UNCHANGED <<buf, route>>
    BY <1>10 DEF Classify, Quiet
  <2>2. CASE pc' = "done" /\ UNCHANGED <<attempt, elapsed>>
    BY <1>1, <1>2, <1>3, <2>1, <2>2 DEF BoundInv, TimeInv, Steps
  <2>3. CASE /\ Takes(backoff_for(attempt)) /\ attempt' = attempt + 1 /\ pc' = "connect"
             /\ route = "onion" /\ ~(attempt >= MaxAttempts)
    <3>1. attempt' \in Attempts /\ attempt' \in Nat \ {0}
      BY <1>1, <2>3, Naturals DEF Attempts
    <3>2. backoff_for(attempt) \in Int /\ backoff_for(attempt) <= MaxBackoff
      BY <1>1, BackoffCapped
    <3>3. elapsed' = elapsed + backoff_for(attempt)
      BY <1>1, <2>3, <3>2, WaitAdds
    <3>4. elapsed' \in Int /\ elapsed' <= Before(0)'
      <4> DEFINE b == backoff_for(attempt)
      <4>1. /\ elapsed \in Int /\ Before(2) \in Int /\ b \in Int /\ MaxBackoff \in Int
            /\ elapsed <= Before(2) /\ b <= MaxBackoff
        BY <1>1, <1>2, <3>2, Naturals
      <4>2. elapsed' = elapsed + b /\ Before(0)' = Before(2) + MaxBackoff
        BY <1>2, <2>3, <3>3
      <4> HIDE DEF b
      <4> QED
        BY <4>1, <4>2
    <3>5. elapsed' <= Before(2)'
      <4>1. Before(0)' = Before(2) + MaxBackoff /\ Before(2)' = Before(0)' + 2 * Timeout
        BY <1>2, <2>3
      <4> QED
        BY <1>2, <3>4, <4>1, Naturals
    <3>6. pc' = "connect" /\ route' = "onion" /\ route' \in Route /\ Len(buf') < MaxResponse + Chunk
      BY <1>1, <2>1, <2>3
    <3> QED
      BY <1>3, <3>1, <3>4, <3>5, <3>6 DEF BoundInv, TimeInv, Steps
  <2> QED
    BY <1>10, <2>2, <2>3 DEF Classify, Finish, LastAttempt
<1>11. CASE Arrive \/ Answer \/ Pull \/ ParseItem \/ Show \/ UNCHANGED vars
  <2>1. UNCHANGED <<pc, attempt, elapsed, buf, route>>
    BY <1>11 DEF Arrive, Answer, Pull, ParseItem, Show, vars, sender
  <2> QED
    BY <1>1, <1>2, <1>3, <2>1 DEF BoundInv, TimeInv
<1> QED
  BY <1>5, <1>6, <1>7, <1>8, <1>9, <1>10, <1>11 DEF Next, Send, File

\* A report never takes more time of a pass than its policy allows, and an answer never
\* more memory than its cap and a chunk, whatever the network and the endpoint do.
THEOREM OneReportIsBounded == Spec => []Bounded
<1>1. BoundInv => Bounded
  <2> SUFFICES ASSUME BoundInv PROVE Bounded
    OBVIOUS
  <2>1. /\ attempt \in Nat \ {0} /\ elapsed \in Int /\ elapsed <= Before(2)
        /\ Len(buf) < MaxResponse + Chunk
    BY DEF BoundInv, TimeInv
  <2> DEFINE A == (attempt - 1) * 2 * Timeout
             B == (attempt - 1) * MaxBackoff
  <2>2. /\ A \in Nat /\ B \in Nat /\ attempt * 2 * Timeout = A + 2 * Timeout
        /\ Before(2) = jitter.max + A + B + 2 * Timeout
    BY <2>1, OneMore, Naturals DEF Before
  <2>3. jitter.max + attempt * 2 * Timeout + B = Before(2)
    <3> HIDE DEF A, B
    <3> QED
      BY <2>2, Naturals
  <2> QED
    BY <2>1, <2>3 DEF Bounded
<1> QED
  BY <1>1, BoundInit, TimeNext, PTL DEF Spec

-----------------------------------------------------------------------------
(* What the sender may conclude.                                              *)

\* The whole report arrived and was accepted; what was read is the beginning of a redirect.
TakenIn ==
    /\ stream[attempt].got > 0 /\ stream[attempt].got = Len(bytes)
    /\ stream[attempt].reply \in Acceptances
Redirected ==
    \E line \in Answers \cup {<<>>} : \E n \in 0 .. Len(line) :
        parse_status_code(SubSeq(line, 1, n)) \in 300 .. 399

\* No endpoint redirects: no answer has a code of that class, nor does the beginning of one.
NoRedirects == ~Redirected

\* Nothing is under way before the bytes are there, only a whole report is accepted, what
\* is read was answered on the stream of this attempt, and "sent" has one of two reasons:
\* an acceptance, or, not for the onion transport, a redirect.
SentInv ==
    /\ pc \in {"build", "jitter", "launch"} => \A a \in Attempts : stream[a] = Unused
    /\ \A a \in Attempts :
         /\ stream[a].reply # <<>> => stream[a].got > 0
         /\ stream[a].reply \in Acceptances => stream[a].got = Len(bytes)
    /\ pc = "answered" =>
         \E n \in 0 .. Len(stream[attempt].reply) : buf = SubSeq(stream[attempt].reply, 1, n)
    /\ outcome = "sent" => pc = "done" /\ (TakenIn \/ (route # "onion" /\ Redirected))

ArrivedInv == BoundInv /\ SentInv

\* At first nothing has been answered, and nothing is sent.
LEMMA ArrivedInit ==
    ASSUME CodesEnd
    PROVE  Init => ArrivedInv
<1> SUFFICES ASSUME Init PROVE SentInv
  BY BoundInit DEF ArrivedInv
<1>1. /\ \A a \in Attempts : stream[a] = Unused
      /\ pc = "build" /\ outcome = "none"
  BY DEF Init
<1>2. <<>> \notin Acceptances
  BY DEF CodesEnd, Acceptances
<1> QED
  BY <1>1, <1>2 DEF SentInv, Unused

\* An answer that reads as an acceptance was one to the whole report (http.rs:93-131).
LEMMA AcceptedIsWhole ==
    ASSUME CodesEnd, ArrivedInv, pc = "answered", Is2xx(parse_status_code(buf))
    PROVE  TakenIn
<1>1. /\ attempt \in Attempts /\ stream[attempt].reply \in Answers \cup {<<>>}
      /\ stream[attempt].reply # <<>> => stream[attempt].got > 0
      /\ stream[attempt].reply \in Acceptances => stream[attempt].got = Len(bytes)
  BY DEF ArrivedInv, BoundInv, StreamsInv, SentInv
<1>2. PICK n \in 0 .. Len(stream[attempt].reply) : buf = SubSeq(stream[attempt].reply, 1, n)
  BY DEF ArrivedInv, SentInv
<1>3. buf # <<>>
  BY DEF CodesEnd
<1>4. n # 0 /\ stream[attempt].reply # <<>>
  BY <1>2, <1>3, SubSeqEmpty
<1>5. n \in 1 .. Len(stream[attempt].reply)
  BY <1>2, <1>4
<1>6. stream[attempt].reply \in Acceptances
  BY <1>1, <1>2, <1>4, <1>5 DEF CodesEnd
<1> QED
  BY <1>1, <1>4, <1>6 DEF TakenIn

\* Every step keeps it: only an answer that the endpoint gave makes a sender say Sent.
LEMMA ArrivedNext ==
    ASSUME CodesEnd
    PROVE  ArrivedInv /\ [Next]_vars => ArrivedInv'
<1> SUFFICES ASSUME ArrivedInv, [Next]_vars PROVE SentInv'
  BY TimeNext DEF ArrivedInv
<1>1. /\ StreamsInv /\ attempt \in Attempts /\ attempt \in Nat \ {0} /\ SentInv /\ StreamsInv'
      /\ <<>> \notin Acceptances
  BY StreamsNext DEF ArrivedInv, BoundInv, TimeInv, CodesEnd, Acceptances
<1>2. CASE Build \/ StubSend \/ Seal \/ BuildLink \/ Launch
  <2>1. pc \in {"build", "launch"} /\ UNCHANGED stream /\ pc' # "answered" /\ outcome' # "sent"
    <3>1. outcome # "sent"
      BY <1>1, <1>2 DEF SentInv, Build, StubSend, Seal, BuildLink, Launch
    <3>2. CASE Build
      BY <3>1, <3>2 DEF Build, Finish, Quiet
    <3>3. CASE StubSend \/ Seal
      BY <3>1, <3>3 DEF StubSend, Seal, Finish, Quiet
    <3>4. CASE BuildLink \/ Launch
      BY <3>1, <3>4 DEF BuildLink, Launch, Finish, Quiet
    <3> QED
      BY <1>2, <3>2, <3>3, <3>4
  <2> QED
    BY <1>1, <2>1 DEF SentInv, Unused, TakenIn
<1>3. CASE Jitter \/ Connect \/ ReadTooLate
  <2>1. /\ pc \in {"jitter", "connect", "read"} /\ pc' \in {"connect", "write", "failed"}
        /\ UNCHANGED <<stream, bytes, outcome, attempt>>
    BY <1>3 DEF Jitter, Connect, Tried, ReadTooLate
  <2> QED
    BY <1>1, <2>1 DEF SentInv, TakenIn
<1>4. CASE Write
  <2>1. /\ pc = "write" /\ pc' \in {"read", "failed"} /\ UNCHANGED <<bytes, outcome, attempt>>
        /\ \A a \in Attempts : stream'[a].got = stream[a].got /\ stream'[a].reply = stream[a].reply
    BY <1>1, <1>4 DEF Write, StreamsInv
  <2> QED
    BY <1>1, <2>1 DEF SentInv, TakenIn
<1>5. CASE Read
  <2>1. /\ pc = "read" /\ pc' = "answered" /\ UNCHANGED <<bytes, outcome, attempt, stream>>
    BY <1>5 DEF Read
  <2>2. PICK n \in 0 .. Len(stream[attempt].reply) : buf' = SubSeq(stream[attempt].reply, 1, Capped(n))
    BY <1>5 DEF Read
  <2>3. Capped(n) \in 0 .. Len(stream[attempt].reply)
    BY <1>1, <2>2, ReadIsCapped DEF StreamsInv
  <2> QED
    BY <1>1, <2>1, <2>2, <2>3 DEF SentInv, TakenIn
<1>6. CASE Classify
  <2>1. /\ pc \in {"answered", "failed"} /\ pc' \in {"done", "connect"} /\ UNCHANGED <<bytes, stream, buf, route>>
    BY <1>6 DEF Classify, Finish, Quiet
  <2>2. CASE outcome' = "sent"
    <3>1. outcome # "sent"
      BY <1>1, <2>1 DEF SentInv, TakenIn
    <3>2. /\ Accepted(IF pc = "failed" THEN BadStatusLine ELSE parse_status_code(buf))
          /\ pc' = "done" /\ UNCHANGED attempt
      BY <1>6, <2>2, <3>1 DEF Classify, Finish, Rejected
    <3>3. pc = "answered" /\ Accepted(parse_status_code(buf))
      BY <2>1, <3>2 DEF Accepted, Is2xx, BadStatusLine
    <3>4. TakenIn \/ (route # "onion" /\ Redirected)
      <4>1. CASE Is2xx(parse_status_code(buf))
        BY <3>3, <4>1, AcceptedIsWhole
      <4>2. CASE ~Is2xx(parse_status_code(buf))
        <5>1. route # "onion" /\ parse_status_code(buf) \in 300 .. 399
          BY <3>3, <4>2 DEF Accepted
        <5>2. PICK n \in 0 .. Len(stream[attempt].reply) : buf = SubSeq(stream[attempt].reply, 1, n)
          BY <1>1, <3>3 DEF SentInv
        <5>3. stream[attempt].reply \in Answers \cup {<<>>}
          BY <1>1 DEF StreamsInv
        <5> QED
          BY <5>1, <5>2, <5>3 DEF Redirected
      <4> QED
        BY <4>1, <4>2
    <3>5. TakenIn' = TakenIn /\ Redirected' = Redirected
      BY <2>1, <3>2 DEF TakenIn, Redirected
    <3> QED
      BY <1>1, <2>1, <3>2, <3>4, <3>5 DEF SentInv
  <2> QED
    BY <1>1, <2>1, <2>2 DEF SentInv
<1>7. CASE Arrive
  <2>1. PICK a \in Attempts : \E n \in 1 .. stream[a].sent :
          stream[a].got = 0 /\ stream' = [stream EXCEPT ![a].got = n]
    BY <1>7 DEF Arrive
  <2>2. PICK n \in 1 .. stream[a].sent : stream[a].got = 0 /\ stream' = [stream EXCEPT ![a].got = n]
    BY <2>1
  <2>3. /\ \A b \in Attempts : stream'[b].reply = stream[b].reply /\ (b # a => stream'[b].got = stream[b].got)
        /\ stream'[a].got = n /\ n > 0
    BY <1>1, <2>2 DEF StreamsInv
  <2>4. stream[a] # Unused
    BY <2>2 DEF Unused
  <2>5. stream[a].reply = <<>>
    BY <1>1, <2>2 DEF SentInv
  <2>6. UNCHANGED <<pc, bytes, buf, outcome, attempt, route>>
    BY <1>7 DEF Arrive, sender
  <2>7. pc \notin {"build", "jitter", "launch"}
    BY <1>1, <2>4 DEF SentInv
  <2>8. outcome = "sent" /\ stream[attempt].got > 0 => attempt # a
    BY <2>2
  <2> QED
    BY <1>1, <2>3, <2>5, <2>6, <2>7, <2>8 DEF SentInv, TakenIn
<1>8. CASE Answer
  <2>1. /\ pc = "read" /\ stream[attempt].got > 0
        /\ UNCHANGED <<pc, bytes, buf, outcome, attempt, route>>
    BY <1>8 DEF Answer, sender
  <2>2. PICK line \in Answers : /\ line \in Acceptances => stream[attempt].got = Len(bytes)
                                /\ stream' = [stream EXCEPT ![attempt].reply = line]
    BY <1>8 DEF Answer
  <2>3. /\ \A b \in Attempts : stream'[b].got = stream[b].got /\ (b # attempt => stream'[b].reply = stream[b].reply)
        /\ stream'[attempt].reply = line
    BY <1>1, <2>2 DEF StreamsInv
  <2> QED
    BY <1>1, <2>1, <2>2, <2>3 DEF SentInv, TakenIn
<1>9. CASE Pull \/ ParseItem \/ Show \/ UNCHANGED vars
  <2>1. UNCHANGED <<pc, bytes, buf, outcome, attempt, route, stream>>
    BY <1>9 DEF Pull, ParseItem, Show, vars, sender
  <2> QED
    BY <1>1, <2>1 DEF SentInv, TakenIn
<1> QED
  BY <1>2, <1>3, <1>4, <1>5, <1>6, <1>7, <1>8, <1>9 DEF Next, Send, File

\* What follows from it: what the sender calls sent was accepted, or redirected.
LEMMA SentIsTakenIn == ASSUME CodesEnd, ArrivedInv, outcome = "sent"
                       PROVE  AcceptedWhole \/ (route # "onion" /\ Redirected)
<1>1. TakenIn => AcceptedWhole
  BY DEF TakenIn, Acceptances, Is2xx, AcceptedWhole
<1> QED
  BY <1>1 DEF ArrivedInv, SentInv

\* For endpoints whose codes have three digits: a report that the onion transport calls
\* sent was accepted whole, however answers are cut and attempts overlap, and whatever
\* the endpoint redirects.
THEOREM OnionSentWasAccepted ==
    ASSUME CodesEnd
    PROVE  Spec => []OnionSentMeansAccepted
<1>1. ArrivedInv => OnionSentMeansAccepted
  BY SentIsTakenIn DEF OnionSentMeansAccepted, SentMeansAccepted
<1> QED
  BY <1>1, ArrivedInit, ArrivedNext, PTL DEF Spec

\* And so was what any backend calls sent, if no endpoint redirects.
THEOREM SentWithoutRedirects ==
    ASSUME CodesEnd, NoRedirects
    PROVE  Spec => []SentMeansAccepted
<1>1. ArrivedInv => SentMeansAccepted
  BY SentIsTakenIn DEF SentMeansAccepted, NoRedirects
<1> QED
  BY <1>1, ArrivedInit, ArrivedNext, PTL DEF Spec

-----------------------------------------------------------------------------
(* Loops that append.                                                         *)

\* Induction over a set, which no theorem with an operator is needed for.
LEMMA Induction ==
    ASSUME NEW P, 0 \in P, \A n \in Nat : n \in P => n + 1 \in P
    PROVE  Nat \subseteq P
<1> SUFFICES ASSUME Nat \ P # {} PROVE FALSE
  OBVIOUS
<1> DEFINE R == OpToRel(<, Nat)
           T == Nat \ P
<1>0. IsWellFoundedOn(R, Nat) /\ T \subseteq Nat /\ T # {}
  BY NatLessThanWellFounded
<1>1. PICK k \in T : \A j \in T : ~(<<j, k>> \in R)
  <2> HIDE DEF R, T
  <2> QED
    BY <1>0, WFMin
<1>2. k # 0 /\ k - 1 \in Nat /\ k - 1 < k
  OBVIOUS
<1>3. k - 1 \in P
  BY <1>1, <1>2 DEF OpToRel
<1> QED
  BY <1>2, <1>3

\* What a loop has written after each round: the start, and then a part more.
Appends(f, N, H, F) ==
    f = [n \in 0 .. N |-> IF n = 0 THEN H ELSE f[n - 1] \o F[n]]

\* Such a loop is defined, whatever it writes.
LEMMA AppendsExists ==
    ASSUME NEW F, NEW H, NEW N \in Nat
    PROVE  \E f : Appends(f, N, H, F)
<1> DEFINE P == {m \in Nat : \E f : Appends(f, m, H, F)}
<1>1. 0 \in P
  <2> DEFINE f == [n \in 0 .. 0 |-> H]
  <2>1. f = [n \in 0 .. 0 |-> IF n = 0 THEN H ELSE f[n - 1] \o F[n]]
    OBVIOUS
  <2> QED
    BY <2>1 DEF Appends
<1>2. ASSUME NEW m \in Nat, m \in P PROVE m + 1 \in P
  <2>1. PICK f : f = [n \in 0 .. m |-> IF n = 0 THEN H ELSE f[n - 1] \o F[n]]
    BY <1>2 DEF Appends
  <2>2. \A n \in 0 .. m : f[n] = IF n = 0 THEN H ELSE f[n - 1] \o F[n]
    BY <2>1
  <2> DEFINE g == [n \in 0 .. (m + 1) |-> IF n = m + 1 THEN f[m] \o F[n] ELSE f[n]]
  <2>3. \A n \in 0 .. (m + 1) : g[n] = IF n = 0 THEN H ELSE g[n - 1] \o F[n]
    BY <2>2
  <2>4. g = [n \in 0 .. (m + 1) |-> g[n]]
    OBVIOUS
  <2> HIDE DEF g
  <2>5. g = [n \in 0 .. (m + 1) |-> IF n = 0 THEN H ELSE g[n - 1] \o F[n]]
    BY <2>3, <2>4
  <2> QED
    BY <2>5 DEF Appends
<1> HIDE DEF P
<1>3. N \in P
  BY <1>1, <1>2, Induction
<1> QED
  BY <1>3 DEF P

\* After every round there is a sequence, which the next one continues, and in the last
\* one every part lies where its round began.
Grows(f, N, H, F, S) ==
    /\ f[0] = H
    /\ \A n \in 0 .. N : f[n] \in Seq(S) /\ Len(f[n]) \in Nat
    /\ \A n \in 1 .. N : Len(f[n]) = Len(f[n - 1]) + Len(F[n])
    /\ \A n \in 0 .. N : \A m \in 0 .. n :
          Len(f[m]) <= Len(f[n]) /\ \A i \in 1 .. Len(f[m]) : f[n][i] = f[m][i]
    /\ \A n \in 1 .. N : \A i \in 1 .. Len(F[n]) : f[N][Len(f[n - 1]) + i] = F[n][i]

\* A loop that appends sequences does so.
LEMMA AppendsPrefix ==
    ASSUME NEW S, NEW N \in Nat, NEW H \in Seq(S), NEW F \in [1 .. N -> Seq(S)],
           NEW f, Appends(f, N, H, F)
    PROVE  Grows(f, N, H, F, S)
<1>1. \A n \in 0 .. N : f[n] = IF n = 0 THEN H ELSE f[n - 1] \o F[n]
  BY DEF Appends
<1> DEFINE Prefix(m, n) == Len(f[m]) <= Len(f[n]) /\ \A i \in 1 .. Len(f[m]) : f[n][i] = f[m][i]
           P == {n \in Nat : n <= N => f[n] \in Seq(S)}
           Q == {n \in Nat : n <= N => \A m \in 0 .. n : Prefix(m, n)}
<1> HIDE DEF Q
<1>2. \A n \in 0 .. N : f[n] \in Seq(S)
  <2>1. 0 \in P
    BY <1>1
  <2>2. ASSUME NEW n \in Nat, n \in P PROVE n + 1 \in P
    <3> SUFFICES ASSUME n + 1 <= N PROVE f[n + 1] \in Seq(S)
      OBVIOUS
    <3>1. f[n] \in Seq(S) /\ F[n + 1] \in Seq(S)
      BY <2>2
    <3>2. n + 1 \in 0 .. N /\ n + 1 # 0 /\ (n + 1) - 1 = n
      OBVIOUS
    <3>3. f[n + 1] = f[n] \o F[n + 1]
      BY <1>1, <3>2
    <3> QED
      BY <3>1, <3>3, ConcatProperties
  <2> HIDE DEF P
  <2>3. Nat \subseteq P
    BY <2>1, <2>2, Induction
  <2> QED
    BY <2>3 DEF P
<1>3. \A n \in 0 .. N : f[n] \in Seq(S) /\ Len(f[n]) \in Nat
  BY <1>2, LenProperties
<1>4. ASSUME NEW n \in 1 .. N
      PROVE  /\ Len(f[n]) = Len(f[n - 1]) + Len(F[n]) /\ Len(F[n]) \in Nat
             /\ \A i \in 1 .. Len(f[n - 1]) : f[n][i] = f[n - 1][i]
             /\ \A i \in 1 .. Len(F[n]) : f[n][Len(f[n - 1]) + i] = F[n][i]
  <2> DEFINE s == f[n - 1]
             t == F[n]
  <2>1. s \in Seq(S) /\ t \in Seq(S) /\ f[n] = s \o t /\ Len(s) \in Nat /\ Len(t) \in Nat
    <3>1. n \in 0 .. N /\ n - 1 \in 0 .. N /\ n # 0
      OBVIOUS
    <3> QED
      BY <1>1, <1>3, <3>1, LenProperties
  <2> HIDE DEF s, t
  <2>2. /\ Len(f[n]) = Len(s) + Len(t)
        /\ \A i \in 1 .. Len(s) : f[n][i] = s[i]
        /\ \A i \in 1 .. Len(t) : f[n][Len(s) + i] = t[i]
    BY <2>1, ConcatProperties
  <2> QED
    BY <2>1, <2>2 DEF s, t
<1>5. \A n \in 0 .. N : \A m \in 0 .. n : Prefix(m, n)
  <2>1. 0 \in Q
    BY <1>3 DEF Q
  <2>2. ASSUME NEW n \in Nat, n \in Q PROVE n + 1 \in Q
    <3> SUFFICES ASSUME n + 1 <= N PROVE \A m \in 0 .. (n + 1) : Prefix(m, n + 1)
      <4>1. n + 1 \in Nat
        OBVIOUS
      <4> HIDE DEF Prefix
      <4> QED
        BY <4>1 DEF Q
    <3> TAKE m \in 0 .. (n + 1)
    <3>1. Prefix(n + 1, n + 1)
      BY <1>3
    <3>2. ASSUME m <= n PROVE Prefix(m, n + 1)
      <4>1. Prefix(m, n)
        BY <2>2, <3>2 DEF Q
      <4>2. /\ Len(f[n + 1]) = Len(f[n]) + Len(F[n + 1]) /\ Len(F[n + 1]) \in Nat
            /\ \A i \in 1 .. Len(f[n]) : f[n + 1][i] = f[n][i]
        <5> DEFINE k == n + 1
        <5>1. k \in 1 .. N /\ k - 1 = n
          OBVIOUS
        <5> HIDE DEF k
        <5>2. /\ Len(f[k]) = Len(f[n]) + Len(F[k]) /\ Len(F[k]) \in Nat
              /\ \A i \in 1 .. Len(f[n]) : f[k][i] = f[n][i]
          BY <1>4, <5>1
        <5> QED
          BY <5>2 DEF k
      <4>3. Len(f[m]) \in Nat /\ Len(f[n]) \in Nat
        BY <1>3, <3>2
      <4>4. Len(f[m]) <= Len(f[n + 1])
        <5> DEFINE a == Len(f[m])
                   b == Len(f[n])
                   c == Len(F[n + 1])
                   d == Len(f[n + 1])
        <5>1. a \in Nat /\ b \in Nat /\ c \in Nat /\ a <= b /\ d = b + c
          BY <4>1, <4>2, <4>3
        <5> HIDE DEF a, b, c, d
        <5>2. a <= d
          BY <5>1
        <5> QED
          BY <5>2 DEF a, d
      <4>5. ASSUME NEW i \in 1 .. Len(f[m]) PROVE f[n + 1][i] = f[m][i]
        <5>1. i \in 1 .. Len(f[n])
          BY <4>1, <4>3
        <5> QED
          BY <4>1, <4>2, <5>1
      <4> QED
        BY <4>4, <4>5
    <3> QED
      BY <3>1, <3>2
  <2> HIDE DEF Prefix
  <2>3. Nat \subseteq Q
    BY <2>1, <2>2, Induction
  <2> QED
    BY <2>3 DEF Q
<1>6. ASSUME NEW n \in 1 .. N, NEW i \in 1 .. Len(F[n])
      PROVE  f[N][Len(f[n - 1]) + i] = F[n][i]
  <2> DEFINE a == Len(f[n - 1])
             b == Len(F[n])
             c == Len(f[n])
  <2>1. Len(f[n - 1]) + i \in 1 .. Len(f[n])
    <3>1. a \in Nat /\ b \in Nat /\ c = a + b /\ i \in 1 .. b
      <4>1. n - 1 \in 0 .. N
        OBVIOUS
      <4> QED
        BY <1>3, <1>4, <4>1
    <3> HIDE DEF a, b, c
    <3>2. a + i \in 1 .. c
      BY <3>1
    <3> QED
      BY <3>2 DEF a, c
  <2>2. Prefix(n, N)
    BY <1>5
  <2> QED
    BY <1>4, <2>1, <2>2
<1>7. f[0] = H
  BY <1>1
<1> QED
  BY <1>3, <1>4, <1>5, <1>6, <1>7 DEF Grows

-----------------------------------------------------------------------------
(* What to_bytes writes, and what one round of from_bytes reads.              *)

\* An item as Envelope makes them, with a payload of some length.
IsItem(item) ==
    /\ item = Item(item.type, item.attachment_type, item.filename, item.content_type, item.payload)
    /\ IsSequence(item.payload)

\* The header line of an envelope.
Header(event_id) == <<[t |-> "envelope", event_id |-> event_id], Close, Newline>>

\* How a list of items lies in the bytes: the header line, and then, from at[n] on, the
\* header line of the n-th, its payload and a newline (envelope.rs:216).
Layout(s, list, at) ==
    /\ Len(s) = at[Len(list) + 1] - 1 /\ IsSequence(s)
    /\ at[1] = 4 /\ \A n \in 1 .. (Len(list) + 1) : at[n] \in Nat /\ at[n] >= 4 /\ at[n] <= Len(s) + 1
    /\ s[1].t = "envelope" /\ s[2] = Close /\ s[3] = Newline
    /\ \A n \in 1 .. Len(list) :
         /\ at[n + 1] = at[n] + 4 + Len(list[n].payload)
         /\ s[at[n]] = ItemHeader(list[n]) /\ s[at[n] + 1] = Close /\ s[at[n] + 2] = Newline
         /\ \A i \in 1 .. Len(list[n].payload) : s[at[n] + 2 + i] = list[n].payload[i]
         /\ s[at[n] + 3 + Len(list[n].payload)] = Newline

\* to_bytes is a loop that appends, with no item twice and none left out.
LEMMA ToBytes ==
    ASSUME NEW e, Len(e.items) \in Nat
    PROVE  \E f : /\ Appends(f, Len(e.items), Header(e.event_id), [n \in 1 .. Len(e.items) |-> ItemBytes(e.items[n])])
                  /\ to_bytes(e) = f[Len(e.items)]
<1> DEFINE N == Len(e.items)
           H == Header(e.event_id)
           F == [n \in 1 .. N |-> ItemBytes(e.items[n])]
           Is(f) == f = [n \in 0 .. N |-> IF n = 0 THEN H ELSE f[n - 1] \o ItemBytes(e.items[n])]
           g == CHOOSE f : Is(f)
<1>1. PICK f : Appends(f, N, H, F)
  BY AppendsExists
<1>2. f = [n \in 0 .. N |-> IF n = 0 THEN H ELSE f[n - 1] \o F[n]]
  BY <1>1 DEF Appends
<1>3. \A n \in 0 .. N : (IF n = 0 THEN H ELSE f[n - 1] \o F[n]) = (IF n = 0 THEN H ELSE f[n - 1] \o ItemBytes(e.items[n]))
  OBVIOUS
<1>4. Is(f)
  BY <1>2, <1>3
<1>5. Is(g)
  <2> HIDE DEF Is
  <2> QED
    BY <1>4
<1>6. g = [n \in 0 .. N |-> IF n = 0 THEN H ELSE g[n - 1] \o F[n]]
  <2> HIDE DEF g
  <2>1. \A n \in 0 .. N : (IF n = 0 THEN H ELSE g[n - 1] \o F[n]) = (IF n = 0 THEN H ELSE g[n - 1] \o ItemBytes(e.items[n]))
    OBVIOUS
  <2> QED
    BY <1>5, <2>1
<1>7. to_bytes(e) = g[N]
  BY DEF to_bytes, Header
<1> HIDE DEF g
<1> QED
  BY <1>6, <1>7 DEF Appends

\* The bytes of one item: its header line, its payload, a newline.
LEMMA ItemBytesAre ==
    ASSUME NEW item, IsSequence(item.payload), NEW S,
           {ItemHeader(item), Close, Newline} \cup Elems(item.payload) \subseteq S
    PROVE  /\ ItemBytes(item) \in Seq(S) /\ Len(item.payload) \in Nat
           /\ Len(ItemBytes(item)) = 4 + Len(item.payload)
           /\ ItemBytes(item)[1] = ItemHeader(item) /\ ItemBytes(item)[2] = Close /\ ItemBytes(item)[3] = Newline
           /\ \A i \in 1 .. Len(item.payload) : ItemBytes(item)[3 + i] = item.payload[i]
           /\ ItemBytes(item)[4 + Len(item.payload)] = Newline
<1> DEFINE p == item.payload
           h == <<ItemHeader(item), Close, Newline>>
           l == <<Newline>>
           hp == h \o p
<1>1. p \in Seq(S)
  BY SeqMonotonic DEF IsSequence
<1>2. /\ h \in Seq(S) /\ Len(h) = 3 /\ h[1] = ItemHeader(item) /\ h[2] = Close /\ h[3] = Newline
      /\ l \in Seq(S) /\ Len(l) = 1 /\ l[1] = Newline
  OBVIOUS
<1>3. Len(p) \in Nat
  BY <1>1, LenProperties
<1>4. ItemBytes(item) = hp \o l
  BY DEF ItemBytes
<1> HIDE DEF p, h, l
<1>5. /\ hp \in Seq(S) /\ Len(hp) = 3 + Len(p)
      /\ \A i \in 1 .. 3 : hp[i] = h[i]
      /\ \A i \in 1 .. Len(p) : hp[3 + i] = p[i]
  <2>0. /\ hp \in Seq(S) /\ Len(hp) = Len(h) + Len(p)
        /\ \A i \in 1 .. Len(h) + Len(p) : hp[i] = IF i <= Len(h) THEN h[i] ELSE p[i - Len(h)]
    BY <1>1, <1>2, ConcatProperties
  <2>1. /\ hp \in Seq(S) /\ Len(hp) = 3 + Len(p)
        /\ \A i \in 1 .. 3 + Len(p) : hp[i] = IF i <= 3 THEN h[i] ELSE p[i - 3]
    BY <1>2, <2>0
  <2> HIDE DEF hp
  <2> QED
    BY <1>3, <2>1
<1> HIDE DEF hp
<1>6. /\ hp \o l \in Seq(S) /\ Len(hp \o l) = 4 + Len(p)
      /\ \A i \in 1 .. (3 + Len(p)) : (hp \o l)[i] = hp[i]
      /\ (hp \o l)[4 + Len(p)] = l[1]
  <2> DEFINE q == hp \o l
  <2>0. /\ q \in Seq(S) /\ Len(q) = Len(hp) + Len(l)
        /\ \A i \in 1 .. Len(hp) + Len(l) : q[i] = IF i <= Len(hp) THEN hp[i] ELSE l[i - Len(hp)]
    BY <1>2, <1>5, ConcatProperties
  <2>1. /\ q \in Seq(S) /\ Len(q) = (3 + Len(p)) + 1
        /\ \A i \in 1 .. (3 + Len(p)) + 1 : q[i] = IF i <= 3 + Len(p) THEN hp[i] ELSE l[i - (3 + Len(p))]
    BY <1>2, <1>5, <2>0
  <2> HIDE DEF q
  <2>2. /\ q \in Seq(S) /\ Len(q) = 4 + Len(p)
        /\ \A i \in 1 .. (3 + Len(p)) : q[i] = hp[i]
    BY <1>3, <2>1
  <2>3. q[4 + Len(p)] = l[1]
    <3>1. 4 + Len(p) \in 1 .. (3 + Len(p)) + 1 /\ ~(4 + Len(p) <= 3 + Len(p)) /\ (4 + Len(p)) - (3 + Len(p)) = 1
      BY <1>3
    <3> QED
      BY <2>1, <3>1
  <2> QED
    BY <2>2, <2>3 DEF q
<1> QED
  BY <1>2, <1>3, <1>4, <1>5, <1>6 DEF p

\* So the items of an envelope lie one behind the other in its bytes.
LEMMA LaidOut ==
    ASSUME NEW e, IsSequence(e.items), \A n \in DOMAIN e.items : IsItem(e.items[n])
    PROVE  \E at : Layout(to_bytes(e), e.items, at)
<1> DEFINE N == Len(e.items)
           H == Header(e.event_id)
           F == [n \in 1 .. N |-> ItemBytes(e.items[n])]
           h == [t |-> "envelope", event_id |-> e.event_id]
           S == {h, Close, Newline} \cup {ItemHeader(e.items[n]) : n \in 1 .. N}
                \cup UNION {Elems(e.items[n].payload) : n \in 1 .. N}
           L(n) == Len(e.items[n].payload)
<1>1. N \in Nat /\ DOMAIN e.items = 1 .. N
  BY LenProperties DEF IsSequence
<1>2. PICK f : Appends(f, N, H, F) /\ to_bytes(e) = f[N]
  BY <1>1, ToBytes
<1>3. H \in Seq(S) /\ Len(H) = 3 /\ H[1] = h /\ H[2] = Close /\ H[3] = Newline
  <2> HIDE DEF F, N
  <2> QED
    BY DEF Header
<1>4. ASSUME NEW n \in 1 .. N
      PROVE  /\ F[n] \in Seq(S) /\ L(n) \in Nat /\ Len(F[n]) = 4 + L(n)
             /\ F[n][1] = ItemHeader(e.items[n]) /\ F[n][2] = Close /\ F[n][3] = Newline
             /\ \A i \in 1 .. L(n) : F[n][3 + i] = e.items[n].payload[i]
             /\ F[n][4 + L(n)] = Newline
  <2>1. IsSequence(e.items[n].payload)
    BY <1>1 DEF IsItem
  <2>2. {ItemHeader(e.items[n]), Close, Newline} \cup Elems(e.items[n].payload) \subseteq S
    OBVIOUS
  <2>3. F[n] = ItemBytes(e.items[n])
    OBVIOUS
  <2> HIDE DEF S, F
  <2> QED
    <3> DEFINE item == e.items[n]
    <3>1. IsSequence(item.payload) /\ {ItemHeader(item), Close, Newline} \cup Elems(item.payload) \subseteq S
      BY <2>1, <2>2
    <3> HIDE DEF item
    <3>2. /\ ItemBytes(item) \in Seq(S) /\ Len(item.payload) \in Nat
          /\ Len(ItemBytes(item)) = 4 + Len(item.payload)
          /\ ItemBytes(item)[1] = ItemHeader(item) /\ ItemBytes(item)[2] = Close /\ ItemBytes(item)[3] = Newline
          /\ \A i \in 1 .. Len(item.payload) : ItemBytes(item)[3 + i] = item.payload[i]
          /\ ItemBytes(item)[4 + Len(item.payload)] = Newline
      BY <3>1, ItemBytesAre
    <3> QED
      BY <2>3, <3>2 DEF item
<1> HIDE DEF S, F, H, N
<1>5. /\ f[0] = H
      /\ \A n \in 0 .. N : f[n] \in Seq(S) /\ Len(f[n]) \in Nat
      /\ \A n \in 1 .. N : Len(f[n]) = Len(f[n - 1]) + Len(F[n])
      /\ \A n \in 0 .. N : \A m \in 0 .. n :
            Len(f[m]) <= Len(f[n]) /\ \A i \in 1 .. Len(f[m]) : f[n][i] = f[m][i]
      /\ \A n \in 1 .. N : \A i \in 1 .. Len(F[n]) : f[N][Len(f[n - 1]) + i] = F[n][i]
  <2>1. N \in Nat /\ H \in Seq(S) /\ F \in [1 .. N -> Seq(S)] /\ Appends(f, N, H, F)
    BY <1>1, <1>2, <1>3, <1>4 DEF F
  <2>2. Grows(f, N, H, F, S)
    BY <2>1, AppendsPrefix
  <2> HIDE DEF L
  <2> QED
    BY <2>2 DEF Grows
<1> DEFINE at == [n \in 1 .. (N + 1) |-> Len(f[n - 1]) + 1]
           s == f[N]
<1>6. /\ Len(s) = at[N + 1] - 1 /\ at[1] = 4
      /\ \A n \in 1 .. (N + 1) : at[n] \in Nat /\ at[n] >= 4 /\ at[n] <= Len(s) + 1
  <2>1. at[N + 1] = Len(s) + 1 /\ at[1] = 4
    <3>1. Len(f[0]) = 3
      BY <1>3, <1>5
    <3>2. N + 1 \in 1 .. (N + 1) /\ 1 \in 1 .. (N + 1) /\ (N + 1) - 1 = N /\ 1 - 1 = 0
      BY <1>1
    <3>3. at[N + 1] = Len(f[N]) + 1 /\ at[1] = Len(f[0]) + 1
      BY <3>2
    <3> QED
      BY <3>1, <3>3
  <2>2. ASSUME NEW n \in 1 .. (N + 1) PROVE at[n] \in Nat /\ at[n] >= 4 /\ at[n] <= Len(s) + 1
    <3>1. n - 1 \in 0 .. N /\ 0 \in 0 .. (n - 1) /\ N \in 0 .. N
      BY <1>1
    <3>2. Len(f[n - 1]) \in Nat /\ Len(f[n - 1]) >= 3 /\ Len(f[n - 1]) <= Len(s) /\ Len(s) \in Nat
      BY <1>3, <1>5, <3>1
    <3> DEFINE k == Len(f[n - 1])
               z == Len(s)
    <3>3. at[n] = k + 1 /\ k \in Nat /\ k >= 3 /\ k <= z /\ z \in Nat
      BY <3>2
    <3> HIDE DEF k, z, at
    <3>4. at[n] \in Nat /\ at[n] >= 4 /\ at[n] <= z + 1
      BY <3>3
    <3> QED
      BY <3>4 DEF z
  <2>3. Len(s) \in Nat
    BY <1>1, <1>5
  <2> QED
    BY <2>1, <2>2, <2>3
<1>7. s[1] = h /\ s[2] = Close /\ s[3] = Newline
  <2>1. N \in 0 .. N /\ 0 \in 0 .. N
    BY <1>1
  <2>2. \A i \in 1 .. Len(f[0]) : s[i] = f[0][i]
    BY <1>5, <2>1
  <2>3. 1 \in 1 .. Len(f[0]) /\ 2 \in 1 .. Len(f[0]) /\ 3 \in 1 .. Len(f[0]) /\ f[0] = H
    <3>1. f[0] = H /\ Len(H) = 3
      BY <1>3, <1>5
    <3> QED
      BY <3>1
  <2>4. s[1] = f[0][1] /\ s[2] = f[0][2] /\ s[3] = f[0][3]
    BY <2>2, <2>3
  <2> QED
    BY <1>3, <2>3, <2>4
<1>8. IsSequence(s)
  <2>1. s \in Seq(S)
    BY <1>1, <1>5
  <2> HIDE DEF s
  <2>2. DOMAIN s = 1 .. Len(s) /\ Len(s) \in Nat /\ s \in [1 .. Len(s) -> S]
    BY <2>1, LenProperties
  <2>3. s \in [1 .. Len(s) -> Elems(s)]
    BY <2>2 DEF Elems
  <2> QED
    BY <2>2, <2>3, SeqDef DEF IsSequence
<1>9. ASSUME NEW n \in 1 .. N
      PROVE  /\ at[n + 1] = at[n] + 4 + L(n)
             /\ s[at[n]] = ItemHeader(e.items[n]) /\ s[at[n] + 1] = Close /\ s[at[n] + 2] = Newline
             /\ \A i \in 1 .. L(n) : s[at[n] + 2 + i] = e.items[n].payload[i]
             /\ s[at[n] + 3 + L(n)] = Newline
  <2> DEFINE k == Len(f[n - 1])
             l == L(n)
  <2>1. at[n] = k + 1 /\ at[n + 1] = Len(f[n]) + 1
    BY <1>1
  <2>2. k \in Nat /\ l \in Nat /\ Len(f[n]) = k + (4 + l) /\ Len(F[n]) = 4 + l
    <3>1. n - 1 \in 0 .. N
      BY <1>1
    <3> QED
      BY <1>4, <1>5, <3>1
  <2>3. \A i \in 1 .. (4 + l) : s[k + i] = F[n][i]
    BY <1>5, <2>2
  <2>4. /\ F[n][1] = ItemHeader(e.items[n]) /\ F[n][2] = Close /\ F[n][3] = Newline
        /\ \A i \in 1 .. l : F[n][3 + i] = e.items[n].payload[i]
        /\ F[n][4 + l] = Newline
    BY <1>4
  <2> HIDE DEF k, l, at, s
  <2>5. at[n + 1] = at[n] + 4 + l
    BY <2>1, <2>2
  <2>6. s[at[n]] = F[n][1] /\ s[at[n] + 1] = F[n][2] /\ s[at[n] + 2] = F[n][3]
    <3>1. 1 \in 1 .. (4 + l) /\ 2 \in 1 .. (4 + l) /\ 3 \in 1 .. (4 + l)
      BY <2>2
    <3>2. at[n] = k + 1 /\ at[n] + 1 = k + 2 /\ at[n] + 2 = k + 3
      BY <2>1, <2>2
    <3> QED
      BY <2>3, <3>1, <3>2
  <2>7. ASSUME NEW i \in 1 .. (l + 1) PROVE s[at[n] + 2 + i] = F[n][3 + i]
    <3>1. 3 + i \in 1 .. (4 + l) /\ at[n] + 2 + i = k + (3 + i)
      BY <2>1, <2>2
    <3> QED
      BY <2>3, <3>1
  <2>8. s[at[n] + 3 + l] = F[n][4 + l]
    <3>1. l + 1 \in 1 .. (l + 1) /\ at[n] + 2 + (l + 1) = at[n] + 3 + l /\ 3 + (l + 1) = 4 + l
      BY <2>1, <2>2
    <3> QED
      BY <2>7, <3>1
  <2>9. \A i \in 1 .. l : s[at[n] + 2 + i] = e.items[n].payload[i]
    BY <2>2, <2>4, <2>7
  <2> QED
    BY <2>4, <2>5, <2>6, <2>8, <2>9 DEF l
<1> HIDE DEF at
<1>10. Layout(s, e.items, at)
  BY <1>6, <1>7, <1>8, <1>9 DEF Layout, N
<1> QED
  BY <1>2, <1>10

\* How far a reader of m, the first bytes of s, may be when it is at p: it has given up,
\* because m is not the whole, or it has the first items and is where the next begins,
\* at most one missing newline short of it.
Reading(s, list, at, m, p, its) ==
    \/ p = 0 /\ its = <<>> /\ Len(m) < Len(s)
    \/ \E n \in 0 .. Len(list) :
         /\ its = SubSeq(list, 1, n)
         /\ p = at[n + 1] \/ (n > 0 /\ p = at[n + 1] - 1 /\ p = Len(m) + 1)
         /\ p <= Len(m) + 1

\* A part of the bytes from the first on.
LEMMA PartOf ==
    ASSUME NEW s, IsSequence(s), NEW k \in 0 .. Len(s), NEW m, m = SubSeq(s, 1, k)
    PROVE  /\ Len(m) = k /\ k \in Nat /\ Len(s) \in Nat /\ \A i \in 1 .. k : m[i] = s[i]
           /\ DOMAIN m = 1 .. k /\ m \in Seq(Elems(s)) /\ DOMAIN s = 1 .. Len(s)
<1>1. s \in Seq(Elems(s)) /\ Len(s) \in Nat /\ DOMAIN s = 1 .. Len(s)
  BY LenProperties DEF IsSequence
<1>2. \A i \in 1 .. k : s[i] \in Elems(s)
  BY <1>1 DEF Elems
<1>3. k \in Int /\ 1 \in Int /\ k \in Nat
  BY <1>1
<1>4. /\ m \in Seq(Elems(s)) /\ Len(m) = IF 1 <= k THEN k - 1 + 1 ELSE 0
      /\ \A i \in 1 .. k - 1 + 1 : m[i] = s[1 + i - 1]
  BY <1>2, <1>3, SubSeqProperties
<1>5. DOMAIN m = 1 .. Len(m)
  BY <1>4, LenProperties
<1> QED
  BY <1>1, <1>3, <1>4, <1>5

\* A header of two bytes and a newline is found where it is.
LEMMA HeaderFound ==
    ASSUME NEW m, NEW p \in Nat, Len(m) \in Nat, p + 2 <= Len(m),
           m[p] # Newline, m[p + 1] = Close, m[p + 2] = Newline
    PROVE  NewlineFrom(m, p) = p + 2
<1> DEFINE Is(i) == m[i] = Newline /\ \A j \in p .. (i - 1) : m[j] # Newline
<1>1. p + 2 \in p .. Len(m) /\ m[p + 2] = Newline
  OBVIOUS
<1>2. Close # Newline
  BY DEF Close, Newline
<1>3. \A j \in p .. (p + 2) - 1 : j = p \/ j = p + 1
  OBVIOUS
<1>4. Is(p + 2)
  BY <1>1, <1>2, <1>3
<1>5. ASSUME NEW i \in p .. Len(m), Is(i) PROVE i = p + 2
  <2>1. i # p /\ i # p + 1
    BY <1>2, <1>5
  <2>2. p + 2 \notin p .. (i - 1)
    BY <1>1, <1>5
  <2> QED
    BY <2>1, <2>2
<1>6. NewlineFrom(m, p) = CHOOSE i \in p .. Len(m) : Is(i)
  BY <1>1 DEF NewlineFrom
<1> HIDE DEF Is
<1> QED
  BY <1>1, <1>4, <1>5, <1>6

\* A stretch that reads like a sequence is this sequence.
LEMMA Slice ==
    ASSUME NEW s, NEW a \in Nat, NEW t, IsSequence(t), \A i \in 1 .. Len(t) : s[a + (i - 1)] = t[i]
    PROVE  SubSeq(s, a, a + (Len(t) - 1)) = t
<1> DEFINE T == Elems(t)
           l == Len(t)
           b == a + (l - 1)
           u == SubSeq(s, a, b)
<1>1. t \in Seq(T) /\ l \in Nat /\ \A i \in 1 .. l : t[i] \in T
  BY LenProperties, ElementOfSeq DEF IsSequence
<1>2. \A i \in a .. b : i - a + 1 \in 1 .. l /\ a + ((i - a + 1) - 1) = i
  BY <1>1
<1> HIDE DEF T, l
<1>3. \A i \in a .. b : s[i] \in T
  BY <1>1, <1>2 DEF l
<1>4. a \in Int /\ b \in Int
  BY <1>1
<1> HIDE DEF b
<1>5. /\ u \in Seq(T) /\ Len(u) = IF a <= b THEN b - a + 1 ELSE 0
      /\ \A i \in 1 .. b - a + 1 : u[i] = s[a + i - 1]
  BY <1>3, <1>4, SubSeqProperties
<1> HIDE DEF u
<1>6. Len(u) = l
  BY <1>1, <1>5 DEF b
<1>7. ASSUME NEW i \in 1 .. l PROVE u[i] = t[i]
  <2>1. i \in 1 .. b - a + 1 /\ a + i - 1 = a + (i - 1)
    BY <1>1 DEF b
  <2> QED
    BY <1>5, <2>1 DEF l
<1>8. \A i \in 1 .. Len(u) : u[i] = t[i]
  BY <1>6, <1>7
<1>9. u = t
  BY <1>1, <1>5, <1>6, <1>8, SeqEqual DEF l
<1> QED
  BY <1>9 DEF u, b, l

\* What a header says of its item, its length first.
LEMMA HeaderSays ==
    ASSUME NEW item, NEW x, x = ItemHeader(item)
    PROVE  /\ x.t = "item" /\ x.length = Len(item.payload)
           /\ x.type = item.type /\ x.attachment_type = item.attachment_type
           /\ x.filename = item.filename /\ x.content_type = item.content_type
BY DEF ItemHeader

\* One round of from_bytes reads the item that lies there, by its length and whatever its
\* payload looks like, or gives up because a part of it is missing (envelope.rs:242).
LEMMA OneRound ==
    ASSUME NEW s, NEW list, IsSequence(list), \A n \in DOMAIN list : IsItem(list[n]),
           NEW at, Layout(s, list, at), NEW k \in 1 .. Len(s), NEW m, m = SubSeq(s, 1, k),
           NEW p, NEW its, Reading(s, list, at, m, p, its), p > 0, p <= Len(m),
           NEW q, NEW jts,
           IF HeaderAt(m, p, "item") /\ PayloadEnd(m, p) <= Len(m) + 1
             THEN jts = Append(its, ItemAt(m, p)) /\ q = NextItem(m, p)
             ELSE q = 0 /\ jts = <<>>
    PROVE  Reading(s, list, at, m, q, jts)
<1> DEFINE N == Len(list)
<1>1. /\ list \in Seq(Elems(list)) /\ N \in Nat /\ DOMAIN list = 1 .. N
      /\ Len(s) \in Nat /\ k \in Nat /\ k <= Len(s) /\ Len(m) = k /\ \A i \in 1 .. k : m[i] = s[i]
  BY PartOf, LenProperties DEF IsSequence, Layout
<1>2. PICK n \in 0 .. N :
         /\ its = SubSeq(list, 1, n)
         /\ p = at[n + 1] \/ (n > 0 /\ p = at[n + 1] - 1 /\ p = Len(m) + 1)
  BY DEF Reading
<1>3. p = at[n + 1] /\ p <= k
  BY <1>1, <1>2
<1>4. n + 1 \in 1 .. (N + 1) /\ N + 1 \in 1 .. (N + 1) /\ n \in Nat
  BY <1>1
<1> DEFINE j == n + 1
<1>5. /\ p \in Nat /\ p >= 4 /\ at[N + 1] = Len(s) + 1
  <2>1. \A i \in 1 .. (N + 1) : at[i] \in Nat /\ at[i] >= 4
    BY DEF Layout
  <2>2. j \in 1 .. (N + 1) /\ p = at[j]
    BY <1>3, <1>4
  <2>3. Len(s) = at[N + 1] - 1 /\ at[N + 1] \in Nat
    BY <1>4, <2>1 DEF Layout
  <2> HIDE DEF N, j
  <2> QED
    BY <2>1, <2>2, <2>3
<1>6. n < N /\ n + 1 \in 1 .. N
  <2>1. n # N
    <3>1. ~(at[N + 1] <= k)
      BY <1>1, <1>5
    <3> HIDE DEF N
    <3> QED
      BY <1>3, <3>1
  <2> HIDE DEF N
  <2> QED
    BY <1>1, <2>1
<1> DEFINE item == list[j]
           l == Len(item.payload)
<1>7. /\ IsItem(item) /\ l \in Nat
      /\ item.payload \in Seq(Elems(item.payload))
  BY <1>1, <1>6, LenProperties DEF IsItem, IsSequence
<1>8. /\ at[j + 1] = p + 4 + l
      /\ s[p] = ItemHeader(item) /\ s[p + 1] = Close /\ s[p + 2] = Newline
      /\ \A i \in 1 .. l : s[p + 2 + i] = item.payload[i]
      /\ s[p + 3 + l] = Newline
      /\ at[j + 1] <= Len(s) + 1
  <2>1. j \in 1 .. N /\ j + 1 \in 1 .. (N + 1)
    BY <1>6
  <2> HIDE DEF j
  <2> QED
    BY <1>3, <2>1 DEF Layout, j
<1>9. m[p] = ItemHeader(item) /\ m[p].t = "item" /\ m[p] # Newline /\ m[p].length = l
  <2>1. p \in 1 .. k
    BY <1>3, <1>5, <1>1
  <2>2. m[p] = ItemHeader(item)
    BY <1>1, <1>8, <2>1
  <2>3. m[p].t = "item" /\ m[p].length = l
    <3> HIDE DEF item
    <3> QED
      BY <2>2, HeaderSays
  <2>4. Newline.t = "newline"
    BY DEF Newline
  <2> QED
    BY <2>2, <2>3, <2>4
<1>10. PayloadEnd(m, p) = p + 3 + l
  BY <1>9 DEF PayloadEnd
<1> HIDE DEF l, item, N
<1>11. CASE p + 3 + l <= k + 1
  <2>1. p + 2 <= k /\ p + 1 \in 1 .. k /\ p + 2 \in 1 .. k
    BY <1>1, <1>5, <1>7, <1>11
  <2>2. m[p + 1] = Close /\ m[p + 2] = Newline
    BY <1>1, <1>8, <2>1
  <2>3. HeaderAt(m, p, "item")
    BY <1>1, <1>5, <1>9, <2>1, <2>2, HeaderFound DEF HeaderAt
  <2>4. jts = Append(its, ItemAt(m, p)) /\ q = NextItem(m, p)
    BY <1>1, <1>10, <1>11, <2>3
  <2>5. SubSeq(m, p + 3, (p + 3 + l) - 1) = item.payload
    <3> DEFINE t == item.payload
    <3>1. \A i \in 1 .. l : p + 3 + (i - 1) = p + 2 + i /\ p + 2 + i \in 1 .. k
      BY <1>1, <1>5, <1>7, <1>11
    <3>2. \A i \in 1 .. Len(t) : m[p + 3 + (i - 1)] = t[i]
      BY <1>1, <1>8, <3>1 DEF l
    <3>3. IsSequence(t) /\ Len(t) = l
      BY <1>7 DEF IsItem, l
    <3>4. p + 3 \in Nat /\ (p + 3 + l) - 1 = (p + 3) + (l - 1)
      BY <1>5, <1>7
    <3> HIDE DEF t
    <3>5. SubSeq(m, p + 3, (p + 3) + (Len(t) - 1)) = t
      BY <3>2, <3>3, <3>4, Slice
    <3> QED
      BY <3>3, <3>4, <3>5 DEF t
  <2>6. ItemAt(m, p) = item
    <3>1. ItemAt(m, p) = Item(item.type, item.attachment_type, item.filename, item.content_type, item.payload)
      <4>1. /\ m[p].type = item.type /\ m[p].attachment_type = item.attachment_type
            /\ m[p].filename = item.filename /\ m[p].content_type = item.content_type
        BY <1>9, HeaderSays
      <4>2. SubSeq(m, p + 3, PayloadEnd(m, p) - 1) = item.payload
        BY <1>10, <2>5
      <4> QED
        BY <4>1, <4>2 DEF ItemAt
    <3> QED
      BY <1>7, <3>1 DEF IsItem
  <2>7. jts = SubSeq(list, 1, j)
    <3>1. SubSeq(list, 1, j) = SubSeq(list, 1, j - 1) \o <<list[j]>>
      <4>1. 1 \in 1 .. Len(list) /\ j \in 1 .. Len(list)
        BY <1>6, <1>1 DEF N
      <4> HIDE DEF j
      <4> QED
        BY <1>1, <4>1, SubSeqRecursiveSecond
    <3>2. j - 1 = n
      BY <1>4
    <3>3. its \in Seq(Elems(list)) /\ item \in Elems(list)
      <4>1. \A i \in 1 .. n : list[i] \in Elems(list)
        BY <1>1, <1>6 DEF Elems, N
      <4>2. 1 \in Int /\ n \in Int
        BY <1>4
      <4> QED
        BY <1>1, <1>2, <1>6, <4>1, <4>2, SubSeqProperties DEF Elems, N, item
    <3>4. Append(its, item) = its \o <<item>>
      BY <3>3, AppendIsConcat
    <3> QED
      BY <1>2, <2>4, <2>6, <3>1, <3>2, <3>4 DEF item
  <2>8. j \in 0 .. N /\ j > 0
    BY <1>6, <1>1
  <2>9. q = (IF p + 3 + l <= k /\ m[p + 3 + l] = Newline THEN p + 3 + l + 1 ELSE p + 3 + l)
    BY <1>1, <1>10, <2>4 DEF NextItem
  <2>10. CASE p + 3 + l <= k
    <3> DEFINE e == p + 3 + l
    <3>1. e \in 1 .. k /\ p + 4 + l = e + 1 /\ e + 1 <= k + 1
      BY <1>5, <1>7, <2>10, <1>1
    <3>2. q = at[j + 1] /\ q <= k + 1
      <4>1. m[e] = s[e] /\ s[e] = Newline
        BY <1>1, <1>8, <3>1
      <4>2. q = (IF e <= k /\ m[e] = Newline THEN e + 1 ELSE e) /\ e <= k
        BY <2>9, <2>10
      <4>3. at[j + 1] = e + 1
        BY <1>8, <3>1
      <4> HIDE DEF e
      <4> QED
        BY <3>1, <4>1, <4>2, <4>3
    <3> QED
      BY <1>1, <2>7, <2>8, <3>2 DEF Reading, N
  <2>11. CASE ~(p + 3 + l <= k)
    <3>1. q = at[j + 1] - 1 /\ q = k + 1
      <4>1. q = p + 3 + l
        BY <2>9, <2>11
      <4>2. p + 3 + l = k + 1 /\ p + 4 + l = (p + 3 + l) + 1 /\ (k + 1) + 1 - 1 = k + 1
        BY <1>1, <1>5, <1>7, <1>11, <2>11
      <4> QED
        BY <1>8, <4>1, <4>2
    <3>2. Len(m) = k /\ j \in 0 .. Len(list) /\ j > 0
      BY <1>1, <2>8 DEF N
    <3>3. q > 0
      BY <1>1, <3>1
    <3> HIDE DEF j
    <3> QED
      BY <2>7, <3>1, <3>2, <3>3 DEF Reading
  <2> QED
    BY <2>10, <2>11
<1>12. CASE ~(p + 3 + l <= k + 1)
  <2>1. q = 0 /\ jts = <<>>
    BY <1>1, <1>10, <1>12
  <2>2. k < Len(s)
    BY <1>1, <1>5, <1>7, <1>8, <1>12
  <2> QED
    BY <1>1, <2>1, <2>2 DEF Reading
<1> QED
  BY <1>11, <1>12

-----------------------------------------------------------------------------
(* What a developer reads.                                                    *)

\* The report is one of those the constants name.
OneCase == \E c \in Cases : route = c[1] /\ report = c[2]

\* The items that may go out: those of the report, with a padding item or without one, or
\* the sealed one.
Lists == IF route = "sealed" THEN {Put} ELSE {Put} \cup {Append(Put, PadItem(pad)) : pad \in Pads}

\* Their bytes.
Wired(list) == to_bytes([event_id |-> event_id_from_nonce(Nonce), items |-> list])

\* What a developer has pulled is the first bytes of it, and how far it is read.
ReadPart(list, at) ==
    mail # <<>> => \E k \in 1 .. Len(bytes) :
        mail = SubSeq(bytes, 1, k) /\ Reading(bytes, list, at, mail, pos, items)

\* Unless an issue is filed: nothing is under way before the bytes are there, no stream
\* has more than there is, and the bytes are those of one list, of which the developer has
\* read the first items.
ReadInv ==
    /\ OneCase /\ recipients \subseteq Identity
    /\ route # "sealed" => recipients = {}
    /\ route # "issue" =>
        /\ pc # "launch" /\ outcome # "opened"
        /\ pc = "build" => /\ bytes = <<>> /\ mail = <<>> /\ outcome = "none"
                           /\ \A a \in Attempts : stream[a] = Unused
        /\ \A a \in Attempts : /\ stream[a].sent \in Int /\ stream[a].sent <= Len(bytes)
                               /\ stream[a].got \in Nat /\ stream[a].got <= Len(bytes)
        /\ mail = <<>> => pos = 0 /\ items = <<>>
        /\ \/ bytes = <<>> /\ mail = <<>>
           \/ \E list \in Lists : \E at :
                 bytes = Wired(list) /\ Layout(bytes, list, at) /\ ReadPart(list, at)

\* A sequence over any set is one.
LEMMA IsSequenceOf ==
    ASSUME NEW S, NEW s \in Seq(S)
    PROVE  IsSequence(s)
<1>1. DOMAIN s = 1 .. Len(s) /\ Len(s) \in Nat /\ s \in [1 .. Len(s) -> S]
  BY LenProperties
<1>2. s \in [1 .. Len(s) -> Elems(s)]
  BY <1>1 DEF Elems
<1> QED
  BY <1>1, <1>2, SeqDef DEF IsSequence

\* An interval from one on has one end.
LEMMA SameInterval ==
    ASSUME NEW a \in Nat, NEW b \in Nat, 1 .. a = 1 .. b
    PROVE  a = b
<1>1. CASE a < b
  <2>1. b \in 1 .. b /\ b \notin 1 .. a
    BY <1>1
  <2> QED
    BY <2>1
<1>2. CASE b < a
  <2>1. a \in 1 .. a /\ a \notin 1 .. b
    BY <1>2
  <2> QED
    BY <2>1
<1> QED
  BY <1>1, <1>2

\* What Item makes of a payload is an item.
LEMMA ItemsAreItems ==
    ASSUME NEW type, NEW attachment_type, NEW filename, NEW content_type, NEW payload, IsSequence(payload)
    PROVE  IsItem(Item(type, attachment_type, filename, content_type, payload))
BY DEF IsItem, Item

\* A report's items: its event, and an item for every attachment (envelope.rs:130).
LEMMA PlainItems ==
    ASSUME NEW rep, IsSequence(rep.attachments),
           \A i \in DOMAIN rep.attachments : IsSequence(rep.attachments[i].bytes), NEW event_id
    PROVE  LET its == from_report(rep, event_id).items IN
           /\ IsSequence(its) /\ Len(its) = 1 + Len(rep.attachments) /\ Len(rep.attachments) \in Nat
           /\ its[1] = EventItem(rep)
           /\ \A i \in 1 .. Len(rep.attachments) : its[i + 1] = AttachmentItem(rep.attachments[i])
           /\ \A i \in DOMAIN its : IsItem(its[i])
<1> DEFINE its == from_report(rep, event_id).items
           atts == rep.attachments
           A == [i \in DOMAIN atts |-> AttachmentItem(atts[i])]
           E == <<EventItem(rep)>>
           T == {EventItem(rep)} \cup {AttachmentItem(atts[i]) : i \in DOMAIN atts}
<1>1. its = E \o A
  BY DEF from_report
<1>2. DOMAIN atts = 1 .. Len(atts) /\ Len(atts) \in Nat
  BY LenProperties DEF IsSequence
<1>3. A \in [1 .. Len(atts) -> T]
  BY <1>2
<1>4. A \in Seq(T) /\ Len(A) = Len(atts)
  <2> HIDE DEF A, T, atts
  <2>1. A \in Seq(T)
    BY <1>2, <1>3, SeqDef
  <2>2. DOMAIN A = 1 .. Len(A) /\ Len(A) \in Nat /\ DOMAIN A = 1 .. Len(atts)
    BY <1>3, <2>1, LenProperties
  <2> QED
    <3>1. Len(A) = Len(atts)
      <4>1. 1 .. Len(A) = 1 .. Len(atts) /\ Len(A) \in Nat /\ Len(atts) \in Nat
        BY <1>2, <2>2
      <4> QED
        BY <4>1, SameInterval
    <3> QED
      BY <2>1, <3>1
<1>5. E \in Seq(T) /\ Len(E) = 1 /\ E[1] = EventItem(rep)
  OBVIOUS
<1>6. \A i \in 1 .. Len(atts) : A[i] = AttachmentItem(atts[i])
  BY <1>2
<1>7. IsItem(EventItem(rep))
  <2> DEFINE p == <<[t |-> "event",
            level |-> IF rep.stream = "CrashReports" THEN "error" ELSE "info",
            message |-> rep.title, formatted |-> rep.body,
            extra |-> safe_fields(rep.metadata)], Close>>
  <2>1. p \in Seq({p[1], p[2]})
    OBVIOUS
  <2>2. IsSequence(p)
    BY <2>1, IsSequenceOf
  <2>3. EventItem(rep) = Item("event", "", "", "application/json", p)
    BY DEF EventItem
  <2> HIDE DEF p
  <2> QED
    BY <2>2, <2>3, ItemsAreItems
<1>8. ASSUME NEW i \in 1 .. Len(atts) PROVE IsItem(AttachmentItem(atts[i]))
  <2>1. IsSequence(atts[i].bytes)
    BY <1>2
  <2> QED
    BY <2>1, ItemsAreItems DEF AttachmentItem
<1> HIDE DEF its, A, E, T
<1>9. /\ E \o A \in Seq(T) /\ Len(E \o A) = Len(E) + Len(A)
      /\ \A i \in 1 .. Len(E) + Len(A) : (E \o A)[i] = IF i <= Len(E) THEN E[i] ELSE A[i - Len(E)]
  BY <1>4, <1>5, ConcatProperties
<1>10. /\ its \in Seq(T) /\ Len(its) = 1 + Len(atts)
       /\ \A i \in 1 .. 1 + Len(atts) : its[i] = IF i <= 1 THEN E[i] ELSE A[i - 1]
  BY <1>1, <1>4, <1>5, <1>9
<1>11. /\ its[1] = EventItem(rep)
       /\ \A i \in 1 .. Len(atts) : its[i + 1] = AttachmentItem(atts[i])
  <2>1. its[1] = EventItem(rep)
    BY <1>2, <1>5, <1>10
  <2>2. ASSUME NEW i \in 1 .. Len(atts) PROVE its[i + 1] = AttachmentItem(atts[i])
    <3>1. i + 1 \in 1 .. 1 + Len(atts) /\ ~(i + 1 <= 1) /\ (i + 1) - 1 = i
      BY <1>2
    <3> QED
      BY <1>6, <1>10, <3>1
  <2> QED
    BY <2>1, <2>2
<1>12. IsSequence(its) /\ DOMAIN its = 1 .. 1 + Len(atts)
  BY <1>10, IsSequenceOf, LenProperties
<1>13. ASSUME NEW i \in DOMAIN its PROVE IsItem(its[i])
  <2>1. CASE i = 1
    BY <1>7, <1>11, <2>1
  <2>2. CASE i # 1
    <3>1. i - 1 \in 1 .. Len(atts) /\ (i - 1) + 1 = i
      BY <1>2, <1>12, <2>2
    <3> QED
      BY <1>8, <1>11, <3>1
  <2> QED
    BY <2>1, <2>2
<1> QED
  BY <1>2, <1>10, <1>11, <1>12, <1>13 DEF its

\* A list of items with one more at its end is such a list.
LEMMA OneMoreItem ==
    ASSUME NEW list, IsSequence(list), \A n \in DOMAIN list : IsItem(list[n]), NEW item, IsItem(item)
    PROVE  LET more == Append(list, item) IN
           /\ IsSequence(more) /\ Len(more) = Len(list) + 1 /\ Len(list) \in Nat
           /\ \A n \in DOMAIN more : IsItem(more[n])
           /\ \A n \in 1 .. Len(list) : more[n] = list[n]
           /\ more[Len(list) + 1] = item
<1> DEFINE T == Elems(list) \cup {item}
           more == Append(list, item)
<1>1. list \in Seq(T) /\ item \in T /\ Len(list) \in Nat /\ DOMAIN list = 1 .. Len(list)
  BY SeqMonotonic, LenProperties DEF IsSequence
<1> HIDE DEF T
<1>2. /\ more \in Seq(T) /\ Len(more) = Len(list) + 1
      /\ \A n \in 1 .. Len(list) : more[n] = list[n]
      /\ more[Len(list) + 1] = item
  BY <1>1, AppendProperties
<1> HIDE DEF more
<1>3. IsSequence(more) /\ DOMAIN more = 1 .. Len(list) + 1
  BY <1>2, IsSequenceOf, LenProperties
<1>4. \A n \in DOMAIN more : n \in 1 .. Len(list) \/ n = Len(list) + 1
  BY <1>1, <1>3
<1> QED
  BY <1>1, <1>2, <1>3, <1>4 DEF more

\* Whatever goes out is made of items.
LEMMA MadeOfItems ==
    ASSUME OneCase, route # "issue", NEW list \in Lists
    PROVE  IsSequence(list) /\ \A n \in DOMAIN list : IsItem(list[n])
<1>1. CASE route = "sealed"
  <2> DEFINE c == Ciphertext(report, recipients)
             i == SealedItem(c)
  <2>1. c \in Seq({c[1], c[2], c[3]})
    BY DEF Ciphertext
  <2>2. IsItem(i)
    BY <2>1, IsSequenceOf, ItemsAreItems DEF SealedItem
  <2>3. list = <<i>>
    BY <1>1 DEF Lists, Put, sealed
  <2> HIDE DEF i
  <2>4. list \in Seq({i}) /\ DOMAIN list = {1} /\ list[1] = i
    BY <2>3
  <2> QED
    BY <2>2, <2>4, IsSequenceOf
<1>2. CASE route # "sealed"
  <2>1. /\ IsSequence(report.attachments)
        /\ \A i \in DOMAIN report.attachments : IsSequence(report.attachments[i].bytes)
    BY ReportAssumption DEF IsPayload, OneCase
  <2>2. /\ IsSequence(PlainEnvelope.items)
        /\ \A i \in DOMAIN PlainEnvelope.items : IsItem(PlainEnvelope.items[i])
    BY <2>1, PlainItems DEF PlainEnvelope
  <2>3. \A pad \in Pads : IsItem(PadItem(pad))
    BY ReportAssumption, ItemsAreItems DEF IsPayload, PadItem
  <2>4. list = Put \/ \E pad \in Pads : list = Append(Put, PadItem(pad))
    BY <1>2 DEF Lists
  <2>5. Put = PlainEnvelope.items
    BY <1>2 DEF Put
  <2> QED
    <3>1. CASE list = Put
      BY <2>2, <2>5, <3>1
    <3>2. ASSUME NEW pad \in Pads, list = Append(Put, PadItem(pad)) PROVE IsSequence(list) /\ \A n \in DOMAIN list : IsItem(list[n])
      BY <2>2, <2>3, <2>5, <3>2, OneMoreItem
    <3> QED
      BY <2>4, <3>1, <3>2
<1> QED
  BY <1>1, <1>2

\* Whatever goes out lies in its bytes as to_bytes lays it.
LEMMA Laid ==
    ASSUME OneCase, route # "issue", NEW list \in Lists
    PROVE  \E at : Layout(Wired(list), list, at)
<1> DEFINE e == [event_id |-> event_id_from_nonce(Nonce), items |-> list]
<1>1. e.items = list /\ Wired(list) = to_bytes(e)
  BY DEF Wired
<1>2. IsSequence(e.items) /\ \A n \in DOMAIN e.items : IsItem(e.items[n])
  BY <1>1, MadeOfItems
<1> HIDE DEF e
<1> QED
  BY <1>1, <1>2, LaidOut

\* What Build, StubSend and Seal write is one of these lists.
LEMMA BuiltAs ==
    ASSUME route # "issue"
    PROVE  /\ route # "sealed" => Put \in Lists /\ to_bytes(PlainEnvelope) = Wired(Put)
           /\ route # "sealed" => \A pad \in Pads :
                 /\ Append(Put, PadItem(pad)) \in Lists
                 /\ to_bytes([PlainEnvelope EXCEPT !.items = Append(@, PadItem(pad))]) = Wired(Append(Put, PadItem(pad)))
           /\ route = "sealed" =>
                 /\ Put \in Lists
                 /\ to_bytes(sealed(Ciphertext(report, recipients), event_id_from_nonce(Nonce))) = Wired(Put)
<1>1. ASSUME route # "sealed"
      PROVE  /\ Put \in Lists /\ to_bytes(PlainEnvelope) = Wired(Put)
             /\ \A pad \in Pads :
                 /\ Append(Put, PadItem(pad)) \in Lists
                 /\ to_bytes([PlainEnvelope EXCEPT !.items = Append(@, PadItem(pad))]) = Wired(Append(Put, PadItem(pad)))
  <2> DEFINE id == event_id_from_nonce(Nonce)
  <2>1. Put = PlainEnvelope.items
    BY <1>1 DEF Put
  <2>2. PlainEnvelope = [event_id |-> id, items |-> Put]
    BY <2>1 DEF PlainEnvelope, from_report
  <2>3. \A pad \in Pads : [PlainEnvelope EXCEPT !.items = Append(@, PadItem(pad))]
                             = [event_id |-> id, items |-> Append(Put, PadItem(pad))]
    <3> HIDE DEF id
    <3> QED
      BY <2>2
  <2> QED
    BY <1>1, <2>2, <2>3 DEF Wired, Lists
<1>2. ASSUME route = "sealed"
      PROVE  /\ Put \in Lists
             /\ to_bytes(sealed(Ciphertext(report, recipients), event_id_from_nonce(Nonce))) = Wired(Put)
  BY <1>2 DEF Wired, Lists, Put, sealed
<1> QED
  BY <1>1, <1>2

\* A reader begins behind the envelope's header line, or gives up because it is cut.
LEMMA PullStarts ==
    ASSUME NEW s, NEW list, IsSequence(list), NEW at, Layout(s, list, at), NEW k \in 1 .. Len(s), NEW m, m = SubSeq(s, 1, k),
           NEW p, p = IF HeaderAt(m, 1, "envelope") THEN 4 ELSE 0
    PROVE  Reading(s, list, at, m, p, <<>>) /\ m # <<>>
<1>1. /\ Len(list) \in Nat /\ Len(s) \in Nat /\ k \in Nat /\ k <= Len(s) /\ k >= 1
      /\ Len(m) = k /\ \A i \in 1 .. k : m[i] = s[i]
  BY PartOf, LenProperties DEF IsSequence, Layout
<1>2. /\ at[1] = 4 /\ Len(s) >= 3 /\ s[1].t = "envelope" /\ s[2] = Close /\ s[3] = Newline
  <2>1. 1 \in 1 .. (Len(list) + 1)
    BY <1>1
  <2> QED
    BY <1>1, <2>1 DEF Layout
<1>3. s[1] # Newline /\ s[2] # Newline
  BY <1>2 DEF Newline, Close
<1>4. 0 \in 0 .. Len(list) /\ SubSeq(list, 1, 0) = <<>> /\ 0 + 1 = 1
  BY <1>1, SubSeqEmpty
<1>5. CASE k >= 3
  <2>1. m[1] = s[1] /\ m[1 + 1] = s[2] /\ m[1 + 2] = s[3]
    BY <1>1, <1>5
  <2>2. HeaderAt(m, 1, "envelope")
    <3>1. 1 + 2 <= Len(m) /\ Len(m) \in Nat /\ 1 \in Nat
      BY <1>1, <1>5
    <3>2. NewlineFrom(m, 1) = 1 + 2
      BY <1>2, <1>3, <2>1, <3>1, HeaderFound
    <3> QED
      BY <1>2, <2>1, <3>2 DEF HeaderAt
  <2>3. p = 4 /\ p <= Len(m) + 1
    BY <1>1, <1>5, <2>2
  <2> QED
    BY <1>1, <1>2, <1>4, <2>3 DEF Reading
<1>6. CASE ~(k >= 3)
  <2>1. \A i \in 1 .. Len(m) : m[i] # Newline
    <3>1. \A i \in 1 .. k : i = 1 \/ i = 2
      BY <1>1, <1>6
    <3> QED
      BY <1>1, <1>3, <3>1
  <2>2. NewlineFrom(m, 1) = 0
    BY <2>1 DEF NewlineFrom
  <2>3. p = 0
    BY <2>2 DEF HeaderAt
  <2> QED
    BY <1>1, <1>2, <1>6, <2>3 DEF Reading
<1>7. m # <<>>
  BY <1>1
<1> QED
  BY <1>5, <1>6, <1>7

\* At first nothing is written and nothing read.
LEMMA ReadInit == Init => ReadInv
<1> SUFFICES ASSUME Init PROVE ReadInv
  OBVIOUS
<1>1. /\ pc = "build" /\ bytes = <<>> /\ outcome = "none" /\ mail = <<>> /\ pos = 0 /\ items = <<>>
      /\ stream = [a \in Attempts |-> Unused] /\ recipients \in IF route = "sealed" THEN SUBSET Identity ELSE {{}}
  BY DEF Init
<1>3. OneCase
  BY DEF Init, OneCase
<1>4. \A a \in Attempts : stream[a] = Unused /\ stream[a].sent = 0 /\ stream[a].got = 0
  BY <1>1 DEF Unused
<1>5. Len(bytes) = 0
  BY <1>1
<1> QED
  BY <1>1, <1>3, <1>4, <1>5 DEF ReadInv

\* Every step keeps it: the bytes are written once, a pull takes the first of them, and
\* from there on every round reads the item that lies there.
LEMMA ReadNext == BoundInv /\ ReadInv /\ [Next]_vars => ReadInv'
<1> SUFFICES ASSUME BoundInv, ReadInv, [Next]_vars PROVE ReadInv'
  OBVIOUS
<1>1. UNCHANGED <<route, report, recipients>>
  BY DEF Next, Send, File, vars, Build, StubSend, Seal, BuildLink, Launch, Jitter, Connect, Write,
     Read, ReadTooLate, Classify, Arrive, Answer, Pull, ParseItem, Show, Quiet
<1>2. OneCase' /\ recipients' \subseteq Identity /\ (route' # "sealed" => recipients' = {})
  BY <1>1 DEF ReadInv, OneCase
<1>3. CASE route = "issue"
  BY <1>1, <1>2, <1>3 DEF ReadInv
<1>4. CASE route # "issue"
  <2> DEFINE Wires(b) == \E list \in Lists : \E at : b = Wired(list) /\ Layout(b, list, at)
             Streams(st, b) == \A a \in Attempts : /\ st[a].sent \in Int /\ st[a].sent <= Len(b)
                                                   /\ st[a].got \in Nat /\ st[a].got <= Len(b)
  <2>1. Lists' = Lists /\ \A list : Wired(list)' = Wired(list)
    BY <1>1 DEF Lists, Put, PlainEnvelope, Wired
  <2>2. /\ OneCase /\ pc # "launch" /\ outcome # "opened"
        /\ pc = "build" => /\ bytes = <<>> /\ mail = <<>> /\ outcome = "none"
                           /\ \A a \in Attempts : stream[a] = Unused
        /\ Streams(stream, bytes)
        /\ mail = <<>> => pos = 0 /\ items = <<>>
    BY <1>4 DEF ReadInv
  <2>3. \/ bytes = <<>> /\ mail = <<>>
        \/ \E list \in Lists : \E at :
             bytes = Wired(list) /\ Layout(bytes, list, at) /\ ReadPart(list, at)
    BY <1>4 DEF ReadInv
  <2>4. DOMAIN stream = Attempts /\ \A a \in Attempts : DOMAIN stream[a] = {"sent", "got", "reply"}
    BY DEF BoundInv, StreamsInv
  <2>5. ~(BuildLink \/ Launch \/ Show)
    BY <1>4, <2>2 DEF BuildLink, Launch, Show
  <2>6. CASE Build \/ StubSend \/ Seal
    <3>1. /\ pc = "build" /\ pc' \notin {"build", "launch"} /\ outcome' # "opened"
          /\ UNCHANGED <<stream, mail, pos, items>>
      <4>1. CASE Build
        BY <2>2, <4>1 DEF Build, Finish, Quiet, developer
      <4>2. CASE StubSend
        BY <2>2, <4>2 DEF StubSend, Finish, Quiet, developer
      <4>3. CASE Seal
        BY <2>2, <4>3 DEF Seal, Finish, Quiet, developer
      <4> QED
        BY <2>6, <4>1, <4>2, <4>3
    <3>2. bytes' = bytes \/ \E list \in Lists : bytes' = Wired(list)
      <4>1. CASE Build
        BY <1>4, <4>1, BuiltAs DEF Build
      <4>2. CASE StubSend
        BY <1>4, <4>2, BuiltAs DEF StubSend
      <4>3. CASE Seal
        BY <1>4, <4>3, BuiltAs DEF Seal
      <4> QED
        BY <2>6, <4>1, <4>2, <4>3
    <3>3. bytes' = <<>> \/ Wires(bytes')
      BY <1>4, <2>2, <3>1, <3>2, Laid
    <3>4. Len(bytes') \in Nat
      <4>1. ASSUME NEW list, NEW at, Layout(bytes', list, at) PROVE Len(bytes') \in Nat
        BY <4>1, LenProperties DEF Layout, IsSequence
      <4> QED
        BY <3>3, <4>1
    <3>5. Streams(stream', bytes')
      BY <2>2, <3>1, <3>4 DEF Unused
    <3>6. mail' = <<>> /\ pos' = 0 /\ items' = <<>>
      BY <2>2, <3>1
    <3> HIDE DEF Streams
    <3>7. \/ bytes' = <<>> /\ mail' = <<>>
          \/ \E list \in Lists' : \E at :
               bytes' = Wired(list)' /\ Layout(bytes', list, at) /\ ReadPart(list, at)'
      BY <2>1, <3>3, <3>6 DEF ReadPart
    <3> QED
      BY <1>2, <3>1, <3>5, <3>6, <3>7 DEF ReadInv, Streams
  <2>7. ASSUME UNCHANGED <<bytes, mail, pos, items>>, pc' # "launch", outcome' # "opened",
               pc' = "build" => UNCHANGED <<pc, outcome, stream>>, Streams(stream', bytes)
        PROVE  ReadInv'
    <3>1. \/ bytes' = <<>> /\ mail' = <<>>
          \/ \E list \in Lists' : \E at :
               bytes' = Wired(list)' /\ Layout(bytes', list, at) /\ ReadPart(list, at)'
      BY <2>1, <2>3, <2>7 DEF ReadPart
    <3>2. pc' = "build" => /\ bytes' = <<>> /\ mail' = <<>> /\ outcome' = "none"
                           /\ \A a \in Attempts : stream'[a] = Unused
      BY <2>2, <2>7
    <3>3. Streams(stream', bytes') /\ (mail' = <<>> => pos' = 0 /\ items' = <<>>)
      BY <2>2, <2>7
    <3> QED
      BY <1>2, <2>7, <3>1, <3>2, <3>3 DEF ReadInv
  <2>8. CASE Jitter \/ Connect \/ Read \/ ReadTooLate \/ Classify
    <3>1. /\ UNCHANGED <<bytes, mail, pos, items, stream>> /\ pc' \notin {"build", "launch"}
          /\ outcome' \in {outcome, "sent", "failed", "retained unreachable", "retained rejected"}
      <4>1. CASE Jitter \/ Connect \/ Read \/ ReadTooLate
        BY <4>1 DEF Jitter, Connect, Tried, Read, ReadTooLate, Quiet, developer
      <4>2. CASE Classify
        BY <4>2 DEF Classify, Finish, Rejected, Quiet, developer
      <4> QED
        BY <2>8, <4>1, <4>2
    <3> QED
      BY <2>2, <2>7, <3>1
  <2>9. CASE Write
    <3>1. /\ UNCHANGED <<bytes, mail, pos, items, outcome>> /\ pc' \in {"read", "failed"}
          /\ \/ stream' = [stream EXCEPT ![attempt].sent = Len(bytes)]
             \/ stream' = [stream EXCEPT ![attempt].sent = Len(bytes) - 1]
      BY <2>9 DEF Write, Quiet, developer
    <3>2. Len(bytes) \in Nat
      <4>1. ASSUME NEW list, NEW at, Layout(bytes, list, at) PROVE Len(bytes) \in Nat
        BY <4>1, LenProperties DEF Layout, IsSequence
      <4> QED
        BY <2>3, <4>1
    <3>3. Streams(stream', bytes)
      BY <2>2, <2>4, <3>1, <3>2
    <3> QED
      BY <2>2, <2>7, <3>1, <3>3
  <2>10. CASE Arrive
    <3>1. PICK a \in Attempts : \E n \in 1 .. stream[a].sent : stream' = [stream EXCEPT ![a].got = n]
      BY <2>10 DEF Arrive
    <3>2. PICK n \in 1 .. stream[a].sent : stream' = [stream EXCEPT ![a].got = n]
      BY <3>1
    <3>3. UNCHANGED <<bytes, mail, pos, items, pc, outcome>>
      BY <2>10 DEF Arrive, sender, developer
    <3>4. n \in Nat /\ n <= stream[a].sent /\ stream[a].sent <= Len(bytes) /\ stream[a].sent \in Int
      BY <2>2, <3>2
    <3>5. Len(bytes) \in Int
      <4>1. ASSUME NEW list, NEW at, Layout(bytes, list, at) PROVE Len(bytes) \in Nat
        BY <4>1, LenProperties DEF Layout, IsSequence
      <4> QED
        BY <2>3, <4>1
    <3>6. n <= Len(bytes)
      BY <3>4, <3>5
    <3>7. Streams(stream', bytes)
      BY <2>2, <2>4, <3>2, <3>4, <3>6
    <3>8. pc # "build"
      <4>1. stream[a].sent # 0
        BY <3>2
      <4> QED
        BY <2>2, <4>1 DEF Unused
    <3> QED
      BY <2>2, <2>7, <3>3, <3>7, <3>8
  <2>11. CASE Answer
    <3>1. PICK line \in Answers : stream' = [stream EXCEPT ![attempt].reply = line]
      BY <2>11 DEF Answer
    <3>2. UNCHANGED <<bytes, mail, pos, items, pc, outcome>> /\ pc = "read"
      BY <2>11 DEF Answer, sender, developer
    <3>3. Streams(stream', bytes)
      BY <2>2, <2>4, <3>1
    <3> QED
      BY <2>2, <2>7, <3>2, <3>3
  <2>12. CASE Pull
    <3>1. PICK a \in Attempts : stream[a].got > 0 /\ mail' = SubSeq(bytes, 1, stream[a].got)
      BY <2>12 DEF Pull
    <3> DEFINE k == stream[a].got
    <3>2. /\ pc = "done" /\ mail = <<>> /\ pos' = IF HeaderAt(mail', 1, "envelope") THEN 4 ELSE 0
          /\ UNCHANGED <<pc, outcome, bytes, stream, items>>
      BY <2>12 DEF Pull, sender
    <3>3. items' = <<>>
      BY <2>2, <3>2
    <3>4. k \in Nat /\ k > 0 /\ k <= Len(bytes)
      BY <2>2, <3>1
    <3>5. PICK list \in Lists : \E at : bytes = Wired(list) /\ Layout(bytes, list, at)
      <4>1. bytes # <<>>
        BY <3>4
      <4> QED
        BY <2>3, <4>1
    <3>6. PICK at : bytes = Wired(list) /\ Layout(bytes, list, at)
      BY <3>5
    <3>7. IsSequence(list) /\ Len(bytes) \in Nat
      BY <1>4, <2>2, <3>6, MadeOfItems, LenProperties DEF Layout, IsSequence
    <3>8. k \in 1 .. Len(bytes)
      BY <3>4, <3>7
    <3>9. Reading(bytes, list, at, mail', pos', items') /\ mail' # <<>>
      <4> HIDE DEF k
      <4> QED
        BY <3>1, <3>2, <3>3, <3>6, <3>7, <3>8, PullStarts DEF k
    <3>10. ReadPart(list, at)'
      BY <3>1, <3>2, <3>8, <3>9 DEF ReadPart
    <3>11. list \in Lists' /\ bytes' = Wired(list)' /\ Layout(bytes', list, at)
      BY <2>1, <3>2, <3>6
    <3>12. Streams(stream', bytes') /\ pc' = "done" /\ outcome' # "opened"
      BY <2>2, <3>2
    <3> HIDE DEF Streams
    <3> QED
      BY <1>2, <3>9, <3>10, <3>11, <3>12 DEF ReadInv, Streams
  <2>13. CASE ParseItem
    <3>1. /\ pos > 0 /\ pos <= Len(mail) /\ UNCHANGED <<bytes, mail, pc, outcome, stream>>
          /\ IF HeaderAt(mail, pos, "item") /\ PayloadEnd(mail, pos) <= Len(mail) + 1
               THEN items' = Append(items, ItemAt(mail, pos)) /\ pos' = NextItem(mail, pos)
               ELSE pos' = 0 /\ items' = <<>>
      BY <2>13 DEF ParseItem, Parsing, sender
    <3>2. mail # <<>>
      BY <2>2, <3>1
    <3>3. PICK list \in Lists : \E at : bytes = Wired(list) /\ Layout(bytes, list, at) /\ ReadPart(list, at)
      BY <2>3, <3>2
    <3>4. PICK at : bytes = Wired(list) /\ Layout(bytes, list, at) /\ ReadPart(list, at)
      BY <3>3
    <3>5. PICK k \in 1 .. Len(bytes) : mail = SubSeq(bytes, 1, k) /\ Reading(bytes, list, at, mail, pos, items)
      BY <3>2, <3>4 DEF ReadPart
    <3>6. IsSequence(list) /\ \A n \in DOMAIN list : IsItem(list[n])
      BY <1>4, <2>2, MadeOfItems
    <3>7. Reading(bytes, list, at, mail, pos', items')
      BY <3>1, <3>4, <3>5, <3>6, OneRound
    <3>8. ReadPart(list, at)'
      BY <3>1, <3>5, <3>7 DEF ReadPart
    <3>9. list \in Lists' /\ bytes' = Wired(list)' /\ Layout(bytes', list, at)
      BY <2>1, <3>1, <3>4
    <3>10. Streams(stream', bytes') /\ mail' # <<>>
      BY <2>2, <3>1, <3>2
    <3>11. pc' # "launch" /\ outcome' # "opened" /\ pc' # "build"
      BY <2>2, <3>1, <3>2
    <3> HIDE DEF Streams
    <3> QED
      BY <1>2, <3>8, <3>9, <3>10, <3>11 DEF ReadInv, Streams
  <2>14. CASE UNCHANGED vars
    <3>1. UNCHANGED <<bytes, mail, pos, items, pc, outcome, stream>>
      BY <2>14 DEF vars, sender, developer
    <3> QED
      BY <2>2, <2>7, <3>1
  <2> QED
    BY <2>5, <2>6, <2>8, <2>9, <2>10, <2>11, <2>12, <2>13, <2>14 DEF Next, Send, File
<1> QED
  BY <1>3, <1>4

\* What a developer has read: nothing, from a part, or the first items, and from the whole
\* in the end all of them.
LEMMA ReadSoFar ==
    ASSUME ReadInv, route # "issue", mail # <<>>
    PROVE  \E list \in Lists : \E at :
             /\ Layout(bytes, list, at) /\ IsSequence(list) /\ Len(mail) \in Nat /\ Len(mail) <= Len(bytes) /\ Len(bytes) \in Nat
             /\ \/ pos = 0 /\ items = <<>> /\ Len(mail) < Len(bytes)
                \/ \E n \in 0 .. Len(list) :
                     /\ pos > 0 /\ items = SubSeq(list, 1, n) 
                     /\ pos > Len(mail) /\ Len(mail) = Len(bytes) => n = Len(list)
<1>1. PICK list \in Lists : \E at : bytes = Wired(list) /\ Layout(bytes, list, at) /\ ReadPart(list, at)
  BY DEF ReadInv
<1>2. PICK at : bytes = Wired(list) /\ Layout(bytes, list, at) /\ ReadPart(list, at)
  BY <1>1
<1>3. PICK k \in 1 .. Len(bytes) : mail = SubSeq(bytes, 1, k) /\ Reading(bytes, list, at, mail, pos, items)
  BY <1>2 DEF ReadPart
<1>4. IsSequence(list) /\ Len(list) \in Nat
  BY MadeOfItems, LenProperties DEF ReadInv, IsSequence
<1>5. Len(mail) = k /\ k \in Nat /\ k <= Len(bytes) /\ Len(bytes) \in Nat
  BY <1>2, <1>3, PartOf DEF Layout
<1>6. ASSUME NEW n \in 0 .. Len(list),
             pos = at[n + 1] \/ (n > 0 /\ pos = at[n + 1] - 1 /\ pos = Len(mail) + 1)
      PROVE  pos > 0 /\ (pos > Len(mail) /\ Len(mail) = Len(bytes) => n = Len(list))
  <2> DEFINE j == n + 1
  <2>1. j \in 1 .. (Len(list) + 1)
    BY <1>4
  <2>2. at[j] \in Nat /\ at[j] >= 4 /\ at[j] <= Len(bytes) + 1
    BY <1>2, <2>1 DEF Layout
  <2>3. pos > 0
    BY <1>6, <2>2
  <2>4. ASSUME pos > Len(mail), Len(mail) = Len(bytes), n # Len(list) PROVE FALSE
    <3>1. j \in 1 .. Len(list) /\ j + 1 \in 1 .. (Len(list) + 1)
      BY <1>4, <2>4
    <3> HIDE DEF j
    <3>2. at[j + 1] = at[j] + 4 + Len(list[j].payload) /\ at[j + 1] <= Len(bytes) + 1
      BY <1>2, <3>1 DEF Layout
    <3>3. Len(list[j].payload) \in Nat
      <4>1. IsItem(list[j])
        BY <1>4, <3>1, MadeOfItems, LenProperties DEF ReadInv, IsSequence
      <4> QED
        BY <4>1, LenProperties DEF IsItem, IsSequence
    <3>4. pos <= at[j] /\ pos > Len(bytes)
      BY <1>6, <2>2, <2>4 DEF j
    <3> DEFINE b == Len(bytes)
               a == at[j]
               l == Len(list[j].payload)
    <3>5. a + 4 <= b + 1
      <4>1. a \in Nat /\ b \in Nat /\ l \in Nat /\ a + 4 + l <= b + 1
        BY <1>5, <2>2, <3>2, <3>3 DEF j
      <4> HIDE DEF a, b, l
      <4> QED
        BY <4>1
    <3>6. a \in Nat /\ b \in Nat /\ pos <= a /\ pos > b /\ a + 4 <= b + 1 /\ pos \in Int
      BY <1>5, <1>6, <2>2, <3>4, <3>5 DEF j
    <3> HIDE DEF a, b
    <3> QED
      BY <3>6
  <2> QED
    BY <2>3, <2>4
<1>7. \/ pos = 0 /\ items = <<>> /\ Len(mail) < Len(bytes)
      \/ \E n \in 0 .. Len(list) :
           /\ pos > 0 /\ items = SubSeq(list, 1, n) 
           /\ pos > Len(mail) /\ Len(mail) = Len(bytes) => n = Len(list)
  BY <1>3, <1>6 DEF Reading
<1> QED
  BY <1>2, <1>4, <1>5, <1>7

\* A sealed report's bytes hold no event and no byte of an attachment (e2e.rs:14).
LEMMA NothingInTheClear ==
    ASSUME ReadInv, route = "sealed"
    PROVE  \A i \in DOMAIN bytes : bytes[i].t \notin {"event", "byte"}
<1>1. CASE bytes = <<>>
  BY <1>1
<1>2. CASE bytes # <<>>
  <2>1. PICK list \in Lists : \E at : Layout(bytes, list, at)
    BY <1>2 DEF ReadInv
  <2>2. PICK at : Layout(bytes, list, at)
    BY <2>1
  <2> DEFINE c == Ciphertext(report, recipients)
             item == SealedItem(c)
  <2>3. list = <<item>>
    BY <2>1 DEF Lists, Put, sealed
  <2>4. item.payload = c
    BY DEF SealedItem, Item
  <2>5. Len(c) = 3 /\ c[1].t = "age" /\ c[2].t = "newline" /\ c[3].t = "tag"
    BY DEF Ciphertext, Newline
  <2>6. ItemHeader(item).t = "item" /\ Close.t = "close" /\ Newline.t = "newline"
    BY HeaderSays DEF Close, Newline
  <2> HIDE DEF c, item
  <2>7. Len(list) = 1 /\ list[1] = item /\ 1 \in 1 .. Len(list)
    BY <2>3
  <2>8. /\ at[1] = 4 /\ at[2] = 11 /\ Len(bytes) = 10 /\ DOMAIN bytes = 1 .. 10
    <3>1. at[1] = 4 /\ at[1 + 1] = at[1] + 4 + Len(list[1].payload)
      BY <2>2, <2>7 DEF Layout
    <3>2. Len(bytes) = at[1 + 1] - 1
      BY <2>2, <2>7 DEF Layout
    <3>3. DOMAIN bytes = 1 .. Len(bytes)
      BY <2>2, LenProperties DEF Layout, IsSequence
    <3> QED
      <4>1. list[1].payload = c
        BY <2>4, <2>7
      <4>2. Len(list[1].payload) = 3
        BY <2>5, <4>1
      <4>3. 1 + 1 = 2
        OBVIOUS
      <4>4. at[2] = at[1] + 4 + 3 /\ Len(bytes) = at[2] - 1
        BY <3>1, <3>2, <4>2, <4>3
      <4> QED
        BY <3>1, <3>3, <4>4
  <2>9. /\ bytes[1].t = "envelope" /\ bytes[2] = Close /\ bytes[3] = Newline
        /\ bytes[4] = ItemHeader(item) /\ bytes[5] = Close /\ bytes[6] = Newline
        /\ bytes[10] = Newline
    <3>1. /\ bytes[at[1]] = ItemHeader(list[1]) /\ bytes[at[1] + 1] = Close /\ bytes[at[1] + 2] = Newline
          /\ bytes[at[1] + 3 + Len(list[1].payload)] = Newline
          /\ bytes[1].t = "envelope" /\ bytes[2] = Close /\ bytes[3] = Newline
      BY <2>2, <2>7 DEF Layout
    <3>2. Len(list[1].payload) = 3
      <4>1. list[1].payload = c
        BY <2>4, <2>7
      <4> QED
        BY <2>5, <4>1
    <3>3. bytes[4 + 3 + 3] = Newline
      BY <2>8, <3>1, <3>2
    <3> QED
      BY <2>7, <2>8, <3>1, <3>3
  <2>10. bytes[7] = c[1] /\ bytes[8] = c[2] /\ bytes[9] = c[3]
    <3>1. \A i \in 1 .. Len(list[1].payload) : bytes[at[1] + 2 + i] = list[1].payload[i]
      BY <2>2, <2>7 DEF Layout
    <3>2. \A i \in 1 .. 3 : bytes[4 + 2 + i] = c[i]
      BY <2>4, <2>5, <2>7, <2>8, <3>1
    <3> QED
      BY <3>2
  <2>11. \A i \in 1 .. 10 : i = 1 \/ i = 2 \/ i = 3 \/ i = 4 \/ i = 5 \/ i = 6 \/ i = 7 \/ i = 8 \/ i = 9 \/ i = 10
    OBVIOUS
  <2> QED
    BY <2>5, <2>6, <2>8, <2>9, <2>10, <2>11
<1> QED
  BY <1>1, <1>2

\* Among items of other types nothing is sealed.
LEMMA NoneSealed ==
    ASSUME NEW its, \A i \in DOMAIN its : its[i].attachment_type # CONTENT_TYPE
    PROVE  sealed_payload(its) = <<>>
<1>1. {i \in DOMAIN its : its[i].type = "attachment" /\ its[i].attachment_type = CONTENT_TYPE} = {}
  OBVIOUS
<1> QED
  BY <1>1 DEF sealed_payload

\* The sealed item of a report is found, with all of its ciphertext.
LEMMA OneSealed ==
    ASSUME NEW its, DOMAIN its = {1}, its[1] = SealedItem(Ciphertext(report, recipients))
    PROVE  sealed_payload(its) = Ciphertext(report, recipients)
<1>1. its[1].type = "attachment" /\ its[1].attachment_type = CONTENT_TYPE /\ its[1].payload = Ciphertext(report, recipients)
  BY DEF SealedItem, Item
<1>2. {i \in DOMAIN its : its[i].type = "attachment" /\ its[i].attachment_type = CONTENT_TYPE} = {1}
  BY <1>1
<1>3. (CHOOSE i \in {1} : \A j \in {1} : i <= j) = 1
  OBVIOUS
<1> QED
  BY <1>1, <1>2, <1>3 DEF sealed_payload

\* Nothing opens for nobody.
LEMMA NobodyOpensNothing ==
    ASSUME NEW k PROVE ~CanOpen(<<>>, k)
BY DEF CanOpen

\* The first items of a list.
LEMMA PartOfList ==
    ASSUME NEW list, IsSequence(list), NEW n \in 0 .. Len(list), NEW its, its = SubSeq(list, 1, n)
    PROVE  /\ DOMAIN its = 1 .. n /\ Len(its) = n /\ n \in Nat /\ n <= Len(list) /\ Len(list) \in Nat
           /\ \A i \in 1 .. n : its[i] = list[i]
BY PartOf, LenProperties DEF IsSequence

\* No event, attachment or padding is of the sealed type: a name or a content type that a
\* host chooses does not make it one (envelope.rs:155).
LEMMA PlainNotSealed ==
    ASSUME OneCase, route # "issue", route # "sealed", NEW list \in Lists
    PROVE  \A i \in DOMAIN list : list[i].attachment_type # CONTENT_TYPE
<1>1. /\ IsSequence(report.attachments)
      /\ \A i \in DOMAIN report.attachments : IsSequence(report.attachments[i].bytes)
  BY ReportAssumption DEF IsPayload, OneCase
<1>2. Put = PlainEnvelope.items
  BY DEF Put
<1>3. /\ IsSequence(Put) /\ Len(Put) = 1 + Len(report.attachments) /\ Len(report.attachments) \in Nat
      /\ Put[1] = EventItem(report)
      /\ \A i \in 1 .. Len(report.attachments) : Put[i + 1] = AttachmentItem(report.attachments[i])
      /\ \A i \in DOMAIN Put : IsItem(Put[i])
  BY <1>1, <1>2, PlainItems DEF PlainEnvelope
<1>4. EventItem(report).attachment_type # CONTENT_TYPE
  BY DEF EventItem, Item, CONTENT_TYPE
<1>5. \A att : AttachmentItem(att).attachment_type # CONTENT_TYPE
  BY DEF AttachmentItem, Item, CONTENT_TYPE
<1>6. \A pad : PadItem(pad).attachment_type # CONTENT_TYPE
  BY DEF PadItem, Item, CONTENT_TYPE
<1>7. DOMAIN Put = 1 .. Len(Put) /\ Len(Put) \in Nat
  BY <1>3, LenProperties DEF IsSequence
<1>8. \A i \in 1 .. Len(Put) : Put[i].attachment_type # CONTENT_TYPE
  <2> TAKE i \in 1 .. Len(Put)
  <2>1. CASE i = 1
    BY <1>3, <1>4, <2>1
  <2>2. CASE i # 1
    <3>1. i - 1 \in 1 .. Len(report.attachments) /\ (i - 1) + 1 = i
      BY <1>3, <2>2
    <3>2. Put[i] = AttachmentItem(report.attachments[i - 1])
      BY <1>3, <3>1
    <3> QED
      BY <1>5, <3>2
  <2> QED
    BY <2>1, <2>2
<1>9. CASE list = Put
  BY <1>7, <1>8, <1>9
<1>10. ASSUME NEW pad \in Pads, list = Append(Put, PadItem(pad))
       PROVE  \A i \in DOMAIN list : list[i].attachment_type # CONTENT_TYPE
  <2>1. IsItem(PadItem(pad))
    BY ReportAssumption, ItemsAreItems DEF IsPayload, PadItem
  <2>2. /\ Len(list) = Len(Put) + 1 /\ IsSequence(list)
        /\ \A n \in 1 .. Len(Put) : list[n] = Put[n]
        /\ list[Len(Put) + 1] = PadItem(pad)
    BY <1>3, <1>10, <2>1, OneMoreItem
  <2>3. DOMAIN list = 1 .. Len(Put) + 1
    BY <2>2, LenProperties DEF IsSequence
  <2>4. \A i \in DOMAIN list : i \in 1 .. Len(Put) \/ i = Len(Put) + 1
    BY <1>7, <2>3
  <2> QED
    BY <1>6, <1>8, <2>2, <2>4
<1> QED
  BY <1>9, <1>10 DEF Lists

\* So whoever opens what was pulled is one it was sealed to.
LEMMA ReadersAre == ReadInv => OnlyRecipientsRead
<1> SUFFICES ASSUME ReadInv PROVE OnlyRecipientsRead
  OBVIOUS
<1> DEFINE payload == sealed_payload(items)
<1>1. ASSUME AllRead, route # "issue"
      PROVE  /\ \A k \in Identity : CanOpen(payload, k) => k \in recipients /\ payload[1].report = report
             /\ Whole => \A k \in recipients : CanOpen(payload, k)
  <2>0. mail # <<>> /\ pos > Len(mail)
    BY <1>1 DEF AllRead
  <2>1. PICK list \in Lists : \E at :
             /\ Layout(bytes, list, at) /\ IsSequence(list) /\ Len(mail) \in Nat /\ Len(mail) <= Len(bytes) /\ Len(bytes) \in Nat
             /\ \/ pos = 0 /\ items = <<>> /\ Len(mail) < Len(bytes)
                \/ \E n \in 0 .. Len(list) :
                     /\ pos > 0 /\ items = SubSeq(list, 1, n) 
                     /\ pos > Len(mail) /\ Len(mail) = Len(bytes) => n = Len(list)
    BY <1>1, <2>0, ReadSoFar
  <2>2. PICK n \in 0 .. Len(list) : items = SubSeq(list, 1, n) /\ (Len(mail) = Len(bytes) => n = Len(list))
    BY <2>0, <2>1
  <2>3. /\ DOMAIN items = 1 .. n /\ \A i \in 1 .. n : items[i] = list[i]
        /\ n \in Nat /\ n <= Len(list)
    BY <2>1, <2>2, PartOfList
  <2>4. CASE route # "sealed"
    <3>1. \A i \in DOMAIN list : list[i].attachment_type # CONTENT_TYPE
      BY <1>1, <2>4, PlainNotSealed DEF ReadInv
    <3>2. \A i \in 1 .. n : i \in DOMAIN list
      BY <2>1, <2>3, LenProperties DEF IsSequence
    <3>3. payload = <<>>
      BY <2>3, <3>1, <3>2, NoneSealed
    <3>4. recipients = {}
      BY <2>4 DEF ReadInv
    <3> HIDE DEF payload
    <3> QED
      BY <3>3, <3>4, NobodyOpensNothing
  <2>5. CASE route = "sealed"
    <3>1. list = <<SealedItem(Ciphertext(report, recipients))>>
      BY <2>5 DEF Lists, Put, sealed
    <3>2. Len(list) = 1 /\ list[1] = SealedItem(Ciphertext(report, recipients))
      BY <3>1
    <3>3. CASE n = 1
      <4>1. DOMAIN items = {1} /\ items[1] = SealedItem(Ciphertext(report, recipients))
        BY <2>3, <3>2, <3>3
      <4>2. payload = Ciphertext(report, recipients)
        BY <4>1, OneSealed
      <4> HIDE DEF payload
      <4>3. Len(payload) = 3 /\ payload[1].t = "age" /\ payload[1].report = report /\ payload[1].recipients = recipients
        BY <4>2 DEF Ciphertext
      <4>4. \A k : CanOpen(payload, k) <=> k \in recipients
        BY <4>2, <4>3 DEF CanOpen
      <4> QED
        BY <4>3, <4>4
    <3>4. CASE n # 1
      <4>1. n = 0 /\ Len(mail) # Len(bytes)
        BY <2>2, <2>3, <3>2, <3>4
      <4>2. DOMAIN items = {}
        BY <2>3, <4>1
      <4>3. payload = <<>>
        BY <4>2, NoneSealed
      <4> HIDE DEF payload
      <4> QED
        BY <4>1, <4>3, NobodyOpensNothing DEF Whole
    <3> QED
      BY <3>3, <3>4
  <2> QED
    BY <2>4, <2>5
<1>2. route = "sealed" => \A i \in DOMAIN bytes : bytes[i].t \notin {"event", "byte"}
  BY NothingInTheClear
<1> HIDE DEF payload
<1> QED
  BY <1>1, <1>2 DEF OnlyRecipientsRead, payload

\* Of a sealed report nothing is on the wire in the clear, and what a developer pulls of
\* it, the whole or any part, opens for the keys it was sealed to and for no other, and
\* shows the report, whatever bytes the payloads hold and however the network cuts them.
THEOREM OnlyRecipientsOpen == Spec => []OnlyRecipientsRead
<1>1. Init => BoundInv /\ ReadInv
  BY BoundInit, ReadInit
<1>2. BoundInv /\ ReadInv /\ [Next]_vars => (BoundInv /\ ReadInv)'
  BY TimeNext, ReadNext
<1>3. ReadInv => OnlyRecipientsRead
  BY ReadersAre
<1> QED
  BY <1>1, <1>2, <1>3, PTL DEF Spec

-----------------------------------------------------------------------------
(* Cutting a sequence at the bytes of a class.                                *)

\* The n + 1 cuts of s at the bytes of class, in their order, as c.
CutAt(s, class, n, c) ==
    /\ Len(s) \in Nat /\ n \in Nat \ {0} /\ c \in [0 .. n -> Nat]
    /\ \A i, j \in 0 .. n : i < j => c[i] < c[j]
    /\ {0, Len(s) + 1} \cup {i \in DOMAIN s : s[i] \in class} = {c[i] : i \in 0 .. n}

\* Split falls into the parts between two cuts.
LEMMA SplitAt ==
    ASSUME NEW s, NEW class, NEW n, NEW c, CutAt(s, class, n, c)
    PROVE  Split(s, class) = [k \in 1 .. n |-> SubSeq(s, c[k - 1] + 1, c[k] - 1)]
<1> DEFINE cuts == {0, Len(s) + 1} \cup {i \in DOMAIN s : s[i] \in class}
           Below(x) == {d \in cuts : d < x}
           Nth(k) == CHOOSE x \in cuts : Cardinality({d \in cuts : d < x}) = k
<1>0. /\ Len(s) \in Nat /\ n \in Nat \ {0} /\ c \in [0 .. n -> Nat]
      /\ \A i, j \in 0 .. n : i < j => c[i] < c[j]
  BY DEF CutAt
<1> USE <1>0
<1>1. cuts = {c[i] : i \in 0 .. n}
  BY DEF CutAt
<1>2. Split(s, class) = [k \in 1 .. (Cardinality(cuts) - 1) |-> SubSeq(s, Nth(k - 1) + 1, Nth(k) - 1)]
  BY DEF Split
<1> HIDE DEF cuts
<1>3. \A i, j \in 0 .. n : c[i] = c[j] => i = j
  <2> TAKE i, j \in 0 .. n
  <2>1. i < j \/ j < i \/ i = j
    OBVIOUS
  <2> QED
    BY <2>1
<1>4. Cardinality(cuts) = n + 1
  <2> DEFINE g == [i \in 0 .. n |-> c[i]]
  <2>1. g \in Bijection(0 .. n, cuts)
    <3>1. g \in [0 .. n -> cuts] /\ \A i, j \in 0 .. n : g[i] = g[j] => i = j
      BY <1>1, <1>3
    <3>2. \A x \in cuts : \E i \in 0 .. n : g[i] = x
      BY <1>1
    <3> HIDE DEF g
    <3> QED
      BY <3>1, <3>2 DEF Bijection, Injection, Surjection, IsInjective
  <2>2. IsFiniteSet(0 .. n) /\ Cardinality(0 .. n) = n + 1
    BY FS_Interval
  <2> HIDE DEF g
  <2>3. ExistsBijection(0 .. n, cuts)
    BY <2>1 DEF ExistsBijection
  <2> QED
    BY <2>2, <2>3, FS_Bijection
<1>5. ASSUME NEW k \in 0 .. n PROVE Cardinality(Below(c[k])) = k
  <2> DEFINE D == 0 .. (k - 1)
             B == Below(c[k])
             g == [i \in D |-> c[i]]
  <2>1. D \subseteq 0 .. n /\ \A i \in D : i < k
    OBVIOUS
  <2>2. g \in [D -> B]
    BY <1>1, <2>1
  <2>3. \A d \in B : \E i \in D : g[i] = d
    <3> TAKE d \in B
    <3>1. PICK i \in 0 .. n : d = c[i]
      BY <1>1
    <3>2. i < k
      <4>1. c[i] < c[k] /\ c[i] \in Nat /\ c[k] \in Nat
        BY <3>1
      <4>2. ~(k < i) /\ k # i
        BY <4>1
      <4> QED
        BY <4>2
    <3>3. i \in D
      BY <3>2
    <3> QED
      BY <3>1, <3>3
  <2>4. g \in Bijection(D, B)
    <3>1. \A i, j \in D : g[i] = g[j] => i = j
      BY <1>3, <2>1
    <3> HIDE DEF g, D, B
    <3> QED
      BY <2>2, <2>3, <3>1 DEF Bijection, Injection, Surjection, IsInjective
  <2>5. IsFiniteSet(D) /\ Cardinality(D) = k
    <3>1. 0 \in Int /\ k - 1 \in Int /\ (IF 0 > k - 1 THEN 0 ELSE (k - 1) - 0 + 1) = k
      OBVIOUS
    <3>2. IsFiniteSet(0 .. (k - 1)) /\ Cardinality(0 .. (k - 1)) = IF 0 > k - 1 THEN 0 ELSE (k - 1) - 0 + 1
      BY <3>1, FS_Interval
    <3> QED
      BY <3>1, <3>2
  <2> HIDE DEF g, D, B
  <2>6. ExistsBijection(D, B)
    BY <2>4 DEF ExistsBijection
  <2>7. Cardinality(B) = k
    BY <2>5, <2>6, FS_Bijection
  <2> QED
    BY <2>7 DEF B
<1>6. ASSUME NEW k \in 0 .. n PROVE Nth(k) = c[k]
  <2>1. c[k] \in cuts /\ Cardinality(Below(c[k])) = k
    BY <1>1, <1>5
  <2>2. ASSUME NEW x \in cuts, Cardinality(Below(x)) = k PROVE x = c[k]
    <3>1. PICK i \in 0 .. n : x = c[i]
      BY <1>1
    <3>2. Cardinality(Below(c[i])) = i
      BY <1>5
    <3> HIDE DEF Below
    <3> QED
      BY <2>2, <3>1, <3>2
  <2> QED
    BY <2>1, <2>2
<1>7. \A k \in 1 .. n : SubSeq(s, Nth(k - 1) + 1, Nth(k) - 1) = SubSeq(s, c[k - 1] + 1, c[k] - 1)
  <2> TAKE k \in 1 .. n
  <2>1. k \in 0 .. n /\ k - 1 \in 0 .. n
    OBVIOUS
  <2>2. Nth(k) = c[k] /\ Nth(k - 1) = c[k - 1]
    BY <1>6, <2>1
  <2> HIDE DEF Nth
  <2> QED
    BY <2>2
<1> HIDE DEF Nth
<1>8. (n + 1) - 1 = n
  OBVIOUS
<1> QED
  BY <1>2, <1>4, <1>7, <1>8

\* First is what is in front of the first byte of the class, or all of it.
LEMMA FirstIs ==
    ASSUME NEW s, Len(s) \in Nat, DOMAIN s = 1 .. Len(s), NEW class,
           NEW p \in 1 .. (Len(s) + 1), p = Len(s) + 1 \/ s[p] \in class,
           \A j \in 1 .. (p - 1) : s[j] \notin class
    PROVE  First(s, class) = SubSeq(s, 1, p - 1)
<1> DEFINE cuts == {0, Len(s) + 1} \cup {i \in DOMAIN s : s[i] \in class}
           Nth(k) == CHOOSE x \in cuts : Cardinality({d \in cuts : d < x}) = k
<1>1. Split(s, class) = [k \in 1 .. (Cardinality(cuts) - 1) |-> SubSeq(s, Nth(k - 1) + 1, Nth(k) - 1)]
  BY DEF Split
<1>2. /\ cuts \subseteq 0 .. (Len(s) + 1) /\ 0 \in cuts /\ p \in cuts /\ p > 0
      /\ \A d \in cuts : d = 0 \/ d >= p
  OBVIOUS
<1> HIDE DEF cuts
<1>3. IsFiniteSet(cuts)
  <2>1. IsFiniteSet(0 .. (Len(s) + 1))
    BY FS_Interval
  <2>2. cuts \in SUBSET (0 .. (Len(s) + 1))
    BY <1>2
  <2> QED
    BY <2>1, <2>2, FS_Subset
<1>4. Cardinality(cuts) \in Nat /\ Cardinality(cuts) >= 2
  <2>1. IsFiniteSet({0} \cup {p}) /\ Cardinality({0} \cup {p}) = 2
    <3>1. IsFiniteSet({0}) /\ Cardinality({0}) = 1
      BY FS_Singleton
    <3>2. p \notin {0}
      BY <1>2
    <3> DEFINE one == {0}
               two == one \cup {p}
    <3> HIDE DEF one
    <3>3. IsFiniteSet(two) /\ Cardinality(two) = IF p \in one THEN Cardinality(one) ELSE Cardinality(one) + 1
      BY <3>1, FS_AddElement DEF one
    <3>4. Cardinality(one) = 1 /\ p \notin one
      BY <3>1, <3>2 DEF one
    <3> HIDE DEF two
    <3>5. IsFiniteSet(two) /\ Cardinality(two) = 2
      BY <3>3, <3>4
    <3> QED
      BY <3>5 DEF two, one
  <2>2. {0} \cup {p} \in SUBSET cuts
    BY <1>2
  <2> QED
    BY <1>3, <2>1, <2>2, FS_Subset, FS_CardinalityType
<1>5. Nth(0) = 0
  <2>1. {d \in cuts : d < 0} = {}
    <3>1. \A d \in cuts : d \in Nat
      BY <1>2
    <3> QED
      BY <3>1
  <2>2. Cardinality({d \in cuts : d < 0}) = 0
    BY <2>1, FS_EmptySet
  <2>3. ASSUME NEW x \in cuts, Cardinality({d \in cuts : d < x}) = 0 PROVE x = 0
    <3> DEFINE B == {d \in cuts : d < x}
    <3>1. B \in SUBSET cuts
      OBVIOUS
    <3>2. IsFiniteSet(B)
      BY <1>3, <3>1, FS_Subset
    <3>3. B = {}
      <4> HIDE DEF B
      <4>1. Cardinality(B) = 0
        BY <2>3 DEF B
      <4> QED
        BY <3>2, <4>1, FS_EmptySet
    <3>4. ~(0 < x)
      BY <1>2, <3>3
    <3> QED
      BY <1>2, <3>4
  <2> QED
    BY <1>2, <2>2, <2>3
<1>6. Nth(1) = p
  <2>1. {d \in cuts : d < p} = {0}
    <3>1. \A d \in cuts : d \in Nat /\ (d < p => d = 0)
      BY <1>2
    <3> QED
      BY <1>2, <3>1
  <2>2. Cardinality({d \in cuts : d < p}) = 1
    BY <2>1, FS_Singleton
  <2>3. ASSUME NEW x \in cuts, Cardinality({d \in cuts : d < x}) = 1 PROVE x = p
    <3> DEFINE B == {d \in cuts : d < x}
    <3>1. B \in SUBSET cuts
      OBVIOUS
    <3>2. IsFiniteSet(B)
      BY <1>3, <3>1, FS_Subset
    <3>3. PICK y : B = {y}
      <4> HIDE DEF B
      <4>1. Cardinality(B) = 1
        BY <2>3 DEF B
      <4> QED
        BY <3>2, <4>1, FS_Singleton
    <3>4. x # 0
      <4>1. y \in B
        BY <3>3
      <4> QED
        BY <1>2, <4>1
    <3>5. 0 \in B
      BY <1>2, <3>4
    <3>6. p \notin B
      BY <1>2, <3>3, <3>5
    <3> QED
      BY <1>2, <3>4, <3>6
  <2> QED
    BY <1>2, <2>2, <2>3
<1> HIDE DEF Nth
<1>7. Split(s, class)[1] = SubSeq(s, Nth(1 - 1) + 1, Nth(1) - 1)
  <2>1. 1 \in 1 .. (Cardinality(cuts) - 1)
    BY <1>4
  <2> QED
    BY <1>1, <2>1
<1> QED
  BY <1>5, <1>6, <1>7 DEF First

-----------------------------------------------------------------------------
(* A flattened sequence of sequences.                                         *)

\* In the end every byte is one of the start or of a part.
Covered(f, N, H, F) ==
    \A j \in 1 .. Len(f[N]) :
        j \in 1 .. Len(H) \/ \E n \in 1 .. N : \E i \in 1 .. Len(F[n]) : j = Len(f[n - 1]) + i

\* Such a loop writes nothing else.
LEMMA AppendsCover ==
    ASSUME NEW S, NEW N \in Nat, NEW H, NEW F \in [1 .. N -> Seq(S)], NEW f, Grows(f, N, H, F, S)
    PROVE  Covered(f, N, H, F)
<1> DEFINE From(j) == j \in 1 .. Len(H) \/ \E n \in 1 .. N : \E i \in 1 .. Len(F[n]) : j = Len(f[n - 1]) + i
           P == {m \in Nat : m <= N => \A j \in 1 .. Len(f[m]) : From(j)}
<1>1. 0 \in P
  BY DEF Grows
<1>2. ASSUME NEW m \in Nat, m \in P PROVE m + 1 \in P
  <2> DEFINE k == m + 1
  <2> SUFFICES ASSUME k <= N PROVE \A j \in 1 .. Len(f[k]) : From(j)
    <3>1. k \in Nat
      OBVIOUS
    <3> HIDE DEF From
    <3> QED
      BY <3>1
  <2>1. k \in 1 .. N /\ k - 1 = m /\ m \in 0 .. N
    OBVIOUS
  <2> HIDE DEF k
  <2>2. Len(f[k]) = Len(f[m]) + Len(F[k]) /\ Len(f[m]) \in Nat /\ Len(F[k]) \in Nat
    <3>1. F[k] \in Seq(S)
      BY <2>1
    <3> QED
      BY <2>1, <3>1, LenProperties DEF Grows
  <2>3. \A j \in 1 .. Len(f[m]) : From(j)
    <3> HIDE DEF From
    <3> QED
      BY <1>2, <2>1
  <2> TAKE j \in 1 .. Len(f[k])
  <2>4. CASE j \in 1 .. Len(f[m])
    <3> HIDE DEF From
    <3> QED
      BY <2>3, <2>4
  <2>5. CASE j \notin 1 .. Len(f[m])
    <3> DEFINE a == Len(f[m])
               b == Len(F[k])
    <3>1. a \in Nat /\ b \in Nat /\ j \in 1 .. (a + b) /\ j \notin 1 .. a
      BY <2>2, <2>5
    <3> HIDE DEF a, b
    <3>2. j - a \in 1 .. b /\ j = a + (j - a)
      BY <3>1
    <3> QED
      BY <2>1, <3>2 DEF a, b
  <2> QED
    BY <2>4, <2>5
<1> HIDE DEF P
<1>3. N \in P
  BY <1>1, <1>2, Induction
<1> HIDE DEF From
<1>4. \A j \in 1 .. Len(f[N]) : From(j)
  BY <1>3 DEF P
<1> QED
  BY <1>4 DEF From, Covered

\* FlattenSeq is such a loop.
LEMMA Flattened ==
    ASSUME NEW S, NEW N \in Nat, NEW F \in [1 .. N -> Seq(S)]
    PROVE  \E f : Appends(f, N, <<>>, F) /\ Ext!FlattenSeq(F) = f[N]
<1>1. F \in Seq(Seq(S)) /\ Len(F) = N /\ DOMAIN F = 1 .. N
  <2>1. F \in Seq(Seq(S)) /\ DOMAIN F = 1 .. N
    BY SeqDef
  <2>2. DOMAIN F = 1 .. Len(F) /\ Len(F) \in Nat
    BY <2>1, LenProperties
  <2>3. 1 .. Len(F) = 1 .. N /\ Len(F) \in Nat
    BY <2>1, <2>2
  <2>4. Len(F) = N
    BY <2>3, SameInterval
  <2> QED
    BY <2>1, <2>4
<1>2. CASE N = 0
  <2> DEFINE f == [n \in 0 .. 0 |-> <<>>]
  <2>1. f = [n \in 0 .. 0 |-> IF n = 0 THEN <<>> ELSE f[n - 1] \o F[n]]
    OBVIOUS
  <2>2. F = <<>>
    BY <1>1, <1>2, EmptySeq
  <2>3. Ext!FlattenSeq(F) = F
    BY <1>1, <1>2 DEF Ext!FlattenSeq
  <2>4. f[0] = <<>>
    OBVIOUS
  <2> HIDE DEF f
  <2> QED
    BY <1>2, <2>1, <2>2, <2>3, <2>4 DEF Appends
<1>3. CASE N # 0
  <2> DEFINE Is(g) == g = [i \in 1 .. Len(F) |-> IF i = 1 THEN F[i] ELSE g[i - 1] \o F[i]]
             c == CHOOSE g : Is(g)
             f == [n \in 0 .. N |-> IF n = 0 THEN <<>> ELSE c[n]]
  <2>1. \E g : Is(g)
    <3>1. PICK h : Appends(h, N, <<>>, F)
      BY AppendsExists
    <3>2. \A n \in 0 .. N : h[n] = IF n = 0 THEN <<>> ELSE h[n - 1] \o F[n]
      BY <3>1 DEF Appends
    <3> DEFINE g == [i \in 1 .. Len(F) |-> h[i]]
    <3>3. \A i \in 1 .. Len(F) : g[i] = IF i = 1 THEN F[i] ELSE g[i - 1] \o F[i]
      <4> TAKE i \in 1 .. Len(F)
      <4>1. i \in 0 .. N /\ i # 0 /\ F[i] \in Seq(S)
        BY <1>1
      <4>2. g[i] = h[i - 1] \o F[i]
        BY <3>2, <4>1
      <4>3. CASE i = 1
        <5>1. h[0] = <<>> /\ i - 1 = 0
          BY <3>2, <4>3
        <5>2. <<>> \o F[1] = F[1]
          BY <4>1, <4>3, ConcatEmptySeq
        <5> HIDE DEF g
        <5> QED
          BY <4>2, <4>3, <5>1, <5>2
      <4>4. CASE i # 1
        <5>1. i - 1 \in 1 .. Len(F)
          BY <1>1, <4>4
        <5>2. g[i - 1] = h[i - 1]
          BY <5>1
        <5> HIDE DEF g
        <5> QED
          BY <4>2, <4>4, <5>2
      <4> QED
        BY <4>3, <4>4
    <3>4. g = [i \in 1 .. Len(F) |-> g[i]]
      OBVIOUS
    <3> HIDE DEF g
    <3>5. Is(g)
      BY <3>3, <3>4
    <3> QED
      BY <3>5
  <2>2. Is(c)
    <3> HIDE DEF Is
    <3> QED
      BY <2>1
  <2>3. Ext!FlattenSeq(F) = c[N]
    BY <1>1, <1>3 DEF Ext!FlattenSeq
  <2> HIDE DEF c
  <2>4. \A i \in 1 .. N : c[i] = IF i = 1 THEN F[i] ELSE c[i - 1] \o F[i]
    BY <1>1, <2>2
  <2>5. \A n \in 0 .. N : f[n] = IF n = 0 THEN <<>> ELSE f[n - 1] \o F[n]
    <3> TAKE n \in 0 .. N
    <3>1. CASE n = 0
      BY <3>1
    <3>2. CASE n = 1
      <4>1. F[1] \in Seq(S) /\ n \in 1 .. N
        BY <3>2
      <4>2. <<>> \o F[1] = F[1]
        BY <4>1, ConcatEmptySeq
      <4>3. f[1] = c[1] /\ c[1] = F[1] /\ f[0] = <<>>
        BY <2>4, <3>2, <4>1
      <4> HIDE DEF f
      <4> QED
        BY <3>2, <4>2, <4>3
    <3>3. CASE n # 0 /\ n # 1
      <4>1. n \in 1 .. N /\ n - 1 \in 0 .. N /\ n - 1 # 0
        BY <3>3
      <4>2. f[n] = c[n] /\ f[n - 1] = c[n - 1] /\ c[n] = c[n - 1] \o F[n]
        BY <2>4, <3>3, <4>1
      <4> HIDE DEF f
      <4> QED
        BY <3>3, <4>2
    <3> QED
      BY <3>1, <3>2, <3>3
  <2>6. f = [n \in 0 .. N |-> f[n]] /\ f[N] = c[N]
    BY <1>3
  <2> HIDE DEF f
  <2>7. f = [n \in 0 .. N |-> IF n = 0 THEN <<>> ELSE f[n - 1] \o F[n]]
    BY <2>5, <2>6
  <2> QED
    BY <2>3, <2>6, <2>7 DEF Appends
<1> QED
  BY <1>2, <1>3

-----------------------------------------------------------------------------
(* Percent encoding, and back.                                                *)

\* The bytes of a text as they go into a link: itself, or a percent sign and two digits.
Code(b) == IF b \in Unreserved THEN <<b>> ELSE <<"%">> \o Hex(b)

\* What a coded text is made of.
Coded == Unreserved \cup {"%"} \cup {Hex(b)[1] : b \in Reserved} \cup {Hex(b)[2] : b \in Reserved}

\* One element in front of two.
LEMMA OneThenTwo ==
    ASSUME NEW a, NEW b, NEW c
    PROVE  <<a>> \o <<b, c>> = <<a, b, c>>
<1> DEFINE S == {a, b, c}
           s == <<a>>
           t == <<b, c>>
           u == <<a, b, c>>
<1>1. /\ s \in Seq(S) /\ Len(s) = 1 /\ s[1] = a
      /\ t \in Seq(S) /\ Len(t) = 2 /\ t[1] = b /\ t[2] = c
      /\ u \in Seq(S) /\ Len(u) = 3 /\ u[1] = a /\ u[2] = b /\ u[3] = c
  OBVIOUS
<1> HIDE DEF S, s, t, u
<1> DEFINE v == s \o t
<1>2. /\ v \in Seq(S) /\ Len(v) = Len(s) + Len(t)
      /\ \A i \in 1 .. Len(s) + Len(t) : v[i] = IF i <= Len(s) THEN s[i] ELSE t[i - Len(s)]
  BY <1>1, ConcatProperties
<1> HIDE DEF v
<1>3. v \in Seq(S) /\ Len(v) = 3 /\ v[1] = a /\ v[2] = b /\ v[3] = c
  BY <1>1, <1>2
<1>4. \A i \in 1 .. 3 : i = 1 \/ i = 2 \/ i = 3
  OBVIOUS
<1>5. \A i \in 1 .. Len(v) : v[i] = u[i]
  BY <1>1, <1>3, <1>4
<1>6. v = u
  BY <1>1, <1>3, <1>5, SeqEqual
<1> QED
  BY <1>6 DEF u, v, s, t

\* What comes of one byte, none of which separates or ends the fields of a link.
LEMMA OneByte ==
    ASSUME NEW b \in Unreserved \cup Reserved
    PROVE  /\ Code(b) \in Seq(Coded)
           /\ b \in Unreserved => Code(b) = <<b>> /\ b # "%" /\ b # "+"
           /\ b \notin Unreserved => b \in Reserved /\ Code(b) = <<"%", Hex(b)[1], Hex(b)[2]>>
<1>1. CASE b \in Unreserved
  <2>1. Code(b) = <<b>> /\ b \in Coded
    BY <1>1 DEF Code, Coded
  <2>2. b # "%" /\ b # "+"
    BY <1>1, IntakeAssumption DEF Structure
  <2> HIDE DEF Coded
  <2>3. <<b>> \in Seq(Coded)
    BY <2>1
  <2> QED
    BY <1>1, <2>1, <2>2, <2>3
<1>2. CASE b \notin Unreserved
  <2> DEFINE h == Hex(b)
             x == h[1]
             y == h[2]
  <2>1. h = <<x, y>> /\ b \in Reserved
    BY <1>2, IntakeAssumption
  <2>2. Code(b) = <<"%">> \o h
    BY <1>2 DEF Code
  <2>3. x \in Coded /\ y \in Coded /\ "%" \in Coded
    BY <2>1 DEF Coded
  <2> HIDE DEF h, x, y
  <2>4. <<"%">> \o <<x, y>> = <<"%", x, y>>
    BY OneThenTwo
  <2>5. <<"%", x, y>> \in Seq(Coded)
    BY <2>3
  <2> QED
    BY <1>2, <2>1, <2>2, <2>4, <2>5 DEF x, y, h
<1> QED
  BY <1>1, <1>2

\* Nothing coded is taken for structure but a percent sign.
LEMMA CodedIsPlain == \A x \in Coded : x \notin {"#", "&", "=", "+"}
<1>1. \A x \in Unreserved : x \notin {"#", "&", "=", "+"}
  BY IntakeAssumption DEF Structure
<1>2. \A b \in Reserved : Hex(b)[1] \notin {"#", "&", "=", "+"} /\ Hex(b)[2] \notin {"#", "&", "=", "+"}
  <2> TAKE b \in Reserved
  <2> DEFINE x == Hex(b)[1]
             y == Hex(b)[2]
  <2>1. {x, y} \cap Structure = {}
    BY IntakeAssumption
  <2> HIDE DEF x, y
  <2>2. x \notin {"#", "&", "=", "+"} /\ y \notin {"#", "&", "=", "+"}
    BY <2>1 DEF Structure
  <2> QED
    BY <2>2 DEF x, y
<1> QED
  BY <1>1, <1>2 DEF Coded

\* percent_encode is a loop over the bytes.
LEMMA Encoded ==
    ASSUME NEW s \in Text
    PROVE  \E f : /\ Grows(f, Len(s), <<>>, [i \in 1 .. Len(s) |-> Code(s[i])], Coded)
                  /\ percent_encode(s) = f[Len(s)]
<1> DEFINE N == Len(s)
           F == [i \in 1 .. N |-> Code(s[i])]
<1>1. N \in Nat /\ DOMAIN s = 1 .. N /\ \A i \in 1 .. N : s[i] \in Unreserved \cup Reserved
  BY LenProperties, ElementOfSeq DEF Text
<1>2. F \in [1 .. N -> Seq(Coded)]
  BY <1>1, OneByte
<1>3. percent_encode(s) = Ext!FlattenSeq(F)
  <2>1. F = [i \in DOMAIN s |-> IF s[i] \in Unreserved THEN <<s[i]>> ELSE <<"%">> \o Hex(s[i])]
    BY <1>1 DEF Code
  <2> QED
    BY <2>1 DEF percent_encode
<1> HIDE DEF F, N
<1>4. PICK f : Appends(f, N, <<>>, F) /\ Ext!FlattenSeq(F) = f[N]
  BY <1>1, <1>2, Flattened
<1>5. <<>> \in Seq(Coded)
  OBVIOUS
<1>6. Grows(f, N, <<>>, F, Coded)
  BY <1>1, <1>2, <1>4, <1>5, AppendsPrefix
<1> QED
  BY <1>3, <1>4, <1>6 DEF F, N

\* One step of a decoder at i, with what comes behind.
Decode(e, g, i) ==
    IF i > Len(e) THEN <<>>
    ELSE IF e[i] = "%" /\ \E b \in Reserved : Hex(b) = SubSeq(e, i + 1, i + 2)
      THEN <<CHOOSE b \in Reserved : Hex(b) = SubSeq(e, i + 1, i + 2)>> \o g[i + 3]
    ELSE <<IF e[i] = "+" THEN " " ELSE e[i]>> \o g[i + 1]

\* A decoder of any bytes is defined, from the end on.
LEMMA Decoder ==
    ASSUME NEW e, Len(e) \in Nat
    PROVE  \E g : (\A i \in 1 .. Len(e) + 3 : g[i] = Decode(e, g, i)) /\ Decoded(e) = g[1]
<1> DEFINE M == Len(e) + 3
           Is(g) == g = [i \in 1 .. M |-> Decode(e, g, i)]
           P == {k \in Nat : \E g : DOMAIN g = 1 .. M /\ \A i \in 1 .. M : i > M - k => g[i] = Decode(e, g, i)}
<1>1. 0 \in P
  <2> DEFINE g == [i \in 1 .. M |-> <<>>]
  <2>1. DOMAIN g = 1 .. M /\ \A i \in 1 .. M : ~(i > M - 0)
    OBVIOUS
  <2> HIDE DEF g
  <2> QED
    BY <2>1
<1>2. ASSUME NEW k \in Nat, k \in P PROVE k + 1 \in P
  <2>1. PICK g : DOMAIN g = 1 .. M /\ \A i \in 1 .. M : i > M - k => g[i] = Decode(e, g, i)
    BY <1>2
  <2> DEFINE at == M - k
             h == [i \in 1 .. M |-> IF i = at THEN Decode(e, g, i) ELSE g[i]]
  <2>2. ASSUME NEW i \in 1 .. M, i >= at PROVE Decode(e, h, i) = Decode(e, g, i)
    <3>1. CASE i > Len(e)
      BY <3>1 DEF Decode
    <3>2. CASE ~(i > Len(e))
      <4>1. i + 1 \in 1 .. M /\ i + 3 \in 1 .. M /\ i + 1 # at /\ i + 3 # at
        BY <2>2, <3>2
      <4>2. h[i + 1] = g[i + 1] /\ h[i + 3] = g[i + 3]
        BY <4>1
      <4> HIDE DEF h
      <4> QED
        BY <4>2 DEF Decode
    <3> QED
      BY <3>1, <3>2
  <2>3. ASSUME NEW i \in 1 .. M, i > M - (k + 1) PROVE h[i] = Decode(e, h, i)
    <3>1. i >= at
      BY <2>3
    <3>2. Decode(e, h, i) = Decode(e, g, i)
      BY <2>2, <3>1
    <3>3. h[i] = Decode(e, g, i)
      BY <2>1, <3>1
    <3> QED
      BY <3>2, <3>3
  <2>4. DOMAIN h = 1 .. M /\ k + 1 \in Nat
    OBVIOUS
  <2> HIDE DEF h
  <2> QED
    BY <2>3, <2>4
<1>3. M \in Nat /\ \A i \in 1 .. M : i > M - M
  OBVIOUS
<1> HIDE DEF P
<1>4. M \in P
  BY <1>1, <1>2, <1>3, Induction
<1>5. \E g : Is(g)
  <2>1. PICK g : DOMAIN g = 1 .. M /\ \A i \in 1 .. M : i > M - M => g[i] = Decode(e, g, i)
    BY <1>4 DEF P
  <2> DEFINE h == [i \in 1 .. M |-> g[i]]
  <2>2. \A i \in 1 .. M : Decode(e, h, i) = Decode(e, g, i)
    <3> TAKE i \in 1 .. M
    <3>1. CASE i > Len(e)
      BY <3>1 DEF Decode
    <3>2. CASE ~(i > Len(e))
      <4>1. i + 1 \in 1 .. M /\ i + 3 \in 1 .. M
        BY <3>2
      <4>2. h[i + 1] = g[i + 1] /\ h[i + 3] = g[i + 3]
        BY <4>1
      <4> HIDE DEF h
      <4> QED
        BY <4>2 DEF Decode
    <3> QED
      BY <3>1, <3>2
  <2>3. \A i \in 1 .. M : h[i] = Decode(e, h, i)
    BY <1>3, <2>1, <2>2
  <2>4. h = [i \in 1 .. M |-> h[i]]
    OBVIOUS
  <2> HIDE DEF h
  <2>5. Is(h)
    BY <2>3, <2>4
  <2> QED
    BY <2>5
<1> DEFINE g == CHOOSE g : Is(g)
<1>6. Is(g)
  <2> HIDE DEF Is
  <2> QED
    BY <1>5
<1>7. Decoded(e) = g[1]
  BY DEF Decoded, Decode
<1> HIDE DEF g
<1>8. \A i \in 1 .. Len(e) + 3 : g[i] = Decode(e, g, i)
  BY <1>6
<1> QED
  BY <1>7, <1>8

\* A text s, coded step by step in f as e, and a decoder g of e.
Coding(s, f, e, g) ==
    /\ Grows(f, Len(s), <<>>, [i \in 1 .. Len(s) |-> Code(s[i])], Coded) /\ e = f[Len(s)]
    /\ \A i \in 1 .. Len(e) + 3 : g[i] = Decode(e, g, i)

\* What a decoder makes of one coded byte is the byte.
LEMMA OneByteBack ==
    ASSUME NEW s \in Text, NEW f, NEW e, NEW g, Coding(s, f, e, g)
    PROVE  \A n \in 1 .. Len(s) : g[Len(f[n - 1]) + 1] = <<s[n]>> \o g[Len(f[n]) + 1]
<1> TAKE n \in 1 .. Len(s)
<1> DEFINE F == [i \in 1 .. Len(s) |-> Code(s[i])]
<1>0. /\ Grows(f, Len(s), <<>>, F, Coded) /\ e = f[Len(s)]
      /\ \A i \in 1 .. Len(e) + 3 : g[i] = Decode(e, g, i)
  BY DEF Coding
<1> DEFINE N == Len(s)
           b == s[n]
           p == Len(f[n - 1]) + 1
           c == Code(b)
           l == Len(c)
<1>1. N \in Nat /\ b \in Unreserved \cup Reserved
  BY LenProperties, ElementOfSeq DEF Text
<1>2. F[n] = c
  OBVIOUS
<1>3. /\ Len(f[n]) = (p - 1) + l /\ p \in Nat /\ p >= 1 /\ Len(f[n]) \in Nat
      /\ Len(f[n]) <= Len(e) /\ Len(e) \in Nat
      /\ \A i \in 1 .. l : e[(p - 1) + i] = c[i]
  <2>1. n - 1 \in 0 .. N /\ n \in 0 .. N /\ N \in 0 .. N /\ n \in 0 .. N
    BY <1>1
  <2>2. /\ Len(f[n]) = Len(f[n - 1]) + Len(F[n])
        /\ \A i \in 1 .. Len(F[n]) : f[N][Len(f[n - 1]) + i] = F[n][i]
    BY <1>0 DEF Grows
  <2>3. Len(f[n - 1]) \in Nat /\ Len(f[n]) \in Nat /\ Len(f[N]) \in Nat /\ Len(f[n]) <= Len(f[N])
    BY <1>0, <2>1 DEF Grows
  <2>4. p - 1 = Len(f[n - 1]) /\ p \in Nat /\ p >= 1
    <3> DEFINE k == Len(f[n - 1])
    <3>1. k \in Nat /\ p = k + 1
      BY <2>3
    <3> HIDE DEF k, p
    <3>2. p - 1 = k /\ p \in Nat /\ p >= 1
      BY <3>1
    <3> QED
      BY <3>2 DEF k
  <2>5. f[N] = e
    BY <1>0
  <2> HIDE DEF N, c, p, F
  <2>6. Len(f[n]) = (p - 1) + l /\ \A i \in 1 .. l : e[(p - 1) + i] = c[i]
    BY <1>2, <2>2, <2>4, <2>5
  <2> QED
    BY <2>3, <2>4, <2>5, <2>6
<1> HIDE DEF F, b, c, p, l, N
<1>4. CASE b \in Unreserved
  <2>1. c = <<b>> /\ b # "%" /\ b # "+"
    BY <1>1, <1>4, OneByte DEF c
  <2>2. l = 1 /\ c[1] = b
    BY <2>1 DEF l
  <2>3. p \in 1 .. Len(e) + 3 /\ ~(p > Len(e)) /\ Len(f[n]) + 1 = p + 1
    BY <1>3, <2>2
  <2>4. e[p] = b
    <3>1. 1 \in 1 .. l /\ (p - 1) + 1 = p
      BY <1>3, <2>2
    <3> QED
      BY <1>3, <2>2, <3>1
  <2>5. Decode(e, g, p) = <<b>> \o g[p + 1]
    BY <2>1, <2>3, <2>4 DEF Decode
  <2>6. g[p] = <<b>> \o g[p + 1]
    BY <1>0, <2>3, <2>5
  <2> QED
    BY <2>3, <2>6 DEF p, b
<1>5. CASE b \notin Unreserved
  <2> DEFINE h == Hex(b)
             x == h[1]
             y == h[2]
  <2>1. b \in Reserved /\ c = <<"%", x, y>> /\ h = <<x, y>>
    BY <1>1, <1>5, OneByte, IntakeAssumption DEF c
  <2> HIDE DEF x, y
  <2>2. l = 3 /\ c[1] = "%" /\ c[2] = x /\ c[3] = y
    BY <2>1 DEF l
  <2>3. p \in 1 .. Len(e) + 3 /\ ~(p > Len(e)) /\ Len(f[n]) + 1 = p + 3
    BY <1>3, <2>2
  <2>4. e[p] = "%" /\ e[p + 1] = x /\ e[p + 2] = y
    <3>1. /\ 1 \in 1 .. l /\ (p - 1) + 1 = p
          /\ 2 \in 1 .. l /\ (p - 1) + 2 = p + 1
          /\ 3 \in 1 .. l /\ (p - 1) + 3 = p + 2
      BY <1>3, <2>2
    <3> QED
      BY <1>3, <2>2, <3>1
  <2>5. SubSeq(e, p + 1, p + 2) = h
    <3>1. h \in Seq({x, y}) /\ Len(h) = 2 /\ h[1] = x /\ h[2] = y
      <4> HIDE DEF h
      <4> QED
        BY <2>1
    <3>2. IsSequence(h)
      BY <3>1, IsSequenceOf
    <3>3. p + 1 \in Nat /\ (p + 1) + (Len(h) - 1) = p + 2
      BY <1>3, <3>1
    <3>4. \A i \in 1 .. Len(h) : e[(p + 1) + (i - 1)] = h[i]
      <4>1. \A i \in 1 .. 2 : i = 1 \/ i = 2
        OBVIOUS
      <4>2. (p + 1) + (1 - 1) = p + 1 /\ (p + 1) + (2 - 1) = p + 2
        BY <1>3
      <4> QED
        BY <2>4, <3>1, <4>1, <4>2
    <3> DEFINE a == p + 1
    <3>5. a \in Nat /\ \A i \in 1 .. Len(h) : e[a + (i - 1)] = h[i]
      BY <3>3, <3>4
    <3> HIDE DEF h, a
    <3>6. SubSeq(e, a, a + (Len(h) - 1)) = h
      BY <3>2, <3>5, Slice
    <3> QED
      BY <3>3, <3>6 DEF a
  <2>6. (CHOOSE d \in Reserved : Hex(d) = h) = b
    BY <2>1, IntakeAssumption
  <2>7. Decode(e, g, p) = <<b>> \o g[p + 3]
    <3>1. e[p] = "%" /\ \E d \in Reserved : Hex(d) = SubSeq(e, p + 1, p + 2)
      BY <2>1, <2>4, <2>5
    <3>2. Decode(e, g, p) = <<CHOOSE d \in Reserved : Hex(d) = SubSeq(e, p + 1, p + 2)>> \o g[p + 3]
      BY <2>3, <3>1 DEF Decode
    <3> HIDE DEF h
    <3> QED
      BY <2>5, <2>6, <3>2
  <2>8. g[p] = <<b>> \o g[p + 3]
    BY <1>0, <2>3, <2>7
  <2> QED
    BY <2>3, <2>8 DEF p, b
<1> QED
  BY <1>4, <1>5

\* Whatever a user writes, a browser decodes what percent_encode makes of it to that text,
\* byte for byte, percent signs, plus signs and line ends included (intake.rs:122).
THEOREM RoundTrip ==
    ASSUME NEW s \in Text
    PROVE  Decoded(percent_encode(s)) = s
<1> DEFINE N == Len(s)
           F == [i \in 1 .. N |-> Code(s[i])]
           e == percent_encode(s)
<1>1. N \in Nat /\ s \in Seq(Unreserved \cup Reserved)
  BY LenProperties DEF Text
<1>2. PICK f : Grows(f, N, <<>>, F, Coded) /\ e = f[N]
  BY Encoded
<1>3. Len(e) \in Nat /\ Len(f[0]) = 0
  BY <1>1, <1>2 DEF Grows
<1>4. PICK g : (\A i \in 1 .. Len(e) + 3 : g[i] = Decode(e, g, i)) /\ Decoded(e) = g[1]
  BY <1>3, Decoder
<1> DEFINE P == {k \in Nat : k <= N => g[Len(f[N - k]) + 1] = SubSeq(s, (N - k) + 1, N)}
<1>5. 0 \in P
  <2>1. N - 0 = N /\ f[N] = e /\ Len(e) + 1 \in 1 .. Len(e) + 3 /\ Len(e) + 1 > Len(e)
    BY <1>1, <1>2, <1>3
  <2>2. g[Len(e) + 1] = <<>>
    BY <1>4, <2>1 DEF Decode
  <2>3. SubSeq(s, N + 1, N) = <<>>
    BY <1>1, SubSeqEmpty
  <2> HIDE DEF e, N
  <2> QED
    BY <2>1, <2>2, <2>3
<1>6. ASSUME NEW k \in Nat, k \in P PROVE k + 1 \in P
  <2> DEFINE n == N - k
  <2> SUFFICES ASSUME k + 1 <= N PROVE g[Len(f[N - (k + 1)]) + 1] = SubSeq(s, (N - (k + 1)) + 1, N)
    OBVIOUS
  <2>1. n \in 1 .. N /\ N - (k + 1) = n - 1 /\ (n - 1) + 1 = n
    BY <1>1
  <2>2. g[Len(f[n]) + 1] = SubSeq(s, n + 1, N)
    BY <1>1, <1>6
  <2>3. g[Len(f[n - 1]) + 1] = <<s[n]>> \o g[Len(f[n]) + 1]
    <3>1. Coding(s, f, e, g)
      BY <1>2, <1>4 DEF Coding
    <3> HIDE DEF n, e, F, N
    <3>2. \A m \in 1 .. Len(s) : g[Len(f[m - 1]) + 1] = <<s[m]>> \o g[Len(f[m]) + 1]
      BY <3>1, OneByteBack
    <3> QED
      BY <2>1, <3>2 DEF N
  <2>4. SubSeq(s, n, N) = <<s[n]>> \o SubSeq(s, n + 1, N)
    <3> HIDE DEF n
    <3> QED
      BY <1>1, <2>1, SubSeqRecursiveFirst
  <2> HIDE DEF n
  <2> QED
    BY <2>1, <2>2, <2>3, <2>4
<1> HIDE DEF P, e, F
<1>7. N \in P
  BY <1>1, <1>5, <1>6, Induction
<1>8. g[Len(f[N - N]) + 1] = SubSeq(s, (N - N) + 1, N)
  BY <1>1, <1>7 DEF P
<1>9. N - N = 0 /\ 0 + 1 = 1
  BY <1>1
<1>10. g[1] = SubSeq(s, 1, N)
  BY <1>3, <1>8, <1>9
<1> QED
  BY <1>1, <1>4, <1>10, SubSeqFull DEF e

-----------------------------------------------------------------------------
(* A link's fields, and what a form makes of them.                            *)

\* Behind the first of two sequences there is the second one.
LEMMA Behind ==
    ASSUME NEW S, NEW s \in Seq(S), NEW t \in Seq(S)
    PROVE  SubSeq(s \o t, Len(s) + 1, Len(s \o t)) = t
<1> DEFINE u == s \o t
           a == Len(s) + 1
<1>1. /\ u \in Seq(S) /\ Len(u) = Len(s) + Len(t) /\ Len(s) \in Nat /\ Len(t) \in Nat
      /\ \A i \in 1 .. Len(s) + Len(t) : u[i] = IF i <= Len(s) THEN s[i] ELSE t[i - Len(s)]
  BY ConcatProperties, LenProperties
<1> HIDE DEF u
<1>2. \A i \in 1 .. Len(t) : u[a + (i - 1)] = t[i]
  <2> TAKE i \in 1 .. Len(t)
  <2> DEFINE j == a + (i - 1)
  <2>1. j \in 1 .. Len(s) + Len(t) /\ ~(j <= Len(s)) /\ j - Len(s) = i
    BY <1>1
  <2> HIDE DEF j
  <2>2. u[j] = t[i]
    BY <1>1, <2>1
  <2> QED
    BY <2>2 DEF j
<1>3. a \in Nat /\ Len(u) = a + (Len(t) - 1)
  BY <1>1
<1> HIDE DEF a
<1>4. IsSequence(t)
  BY IsSequenceOf
<1>5. SubSeq(u, a, a + (Len(t) - 1)) = t
  BY <1>2, <1>3, <1>4, Slice
<1> QED
  BY <1>3, <1>5 DEF u, a

\* A pair t is the name x up to the equals sign, and the bytes v behind it.
IsPair(t, x, v) ==
    /\ IsSequence(t) /\ Len(t) = 2 + Len(v) /\ Len(v) \in Nat
    /\ t[1] = x /\ t[2] = "=" /\ \A j \in 1 .. Len(v) : t[2 + j] = v[j]
    /\ First(t, {"="}) = <<x>> /\ SubSeq(t, 3, Len(t)) = v

\* A field of a link is its name up to the equals sign, and its value behind it.
LEMMA OneField ==
    ASSUME NEW S, NEW x \in S, x # "=", "=" \in S, NEW v \in Seq(S)
    PROVE  IsPair(<<x, "=">> \o v, x, v)
<1> DEFINE h == <<x, "=">>
           t == h \o v
<1>1. h \in Seq(S) /\ Len(h) = 2 /\ h[1] = x /\ h[2] = "="
  OBVIOUS
<1> HIDE DEF h
<1>2. /\ t \in Seq(S) /\ Len(t) = Len(h) + Len(v)
      /\ \A i \in 1 .. Len(h) + Len(v) : t[i] = IF i <= Len(h) THEN h[i] ELSE v[i - Len(h)]
  BY <1>1, ConcatProperties
<1>3. Len(v) \in Nat
  BY LenProperties
<1>4. /\ t \in Seq(S) /\ Len(t) = 2 + Len(v) /\ t[1] = x /\ t[2] = "="
      /\ \A j \in 1 .. Len(v) : t[2 + j] = v[j]
  <2>1. /\ Len(t) = 2 + Len(v)
        /\ \A i \in 1 .. 2 + Len(v) : t[i] = IF i <= 2 THEN h[i] ELSE v[i - 2]
    BY <1>1, <1>2
  <2>2. t[1] = x /\ t[2] = "="
    <3>1. 1 \in 1 .. 2 + Len(v) /\ 2 \in 1 .. 2 + Len(v)
      BY <1>3
    <3> QED
      BY <1>1, <2>1, <3>1
  <2>3. ASSUME NEW j \in 1 .. Len(v) PROVE t[2 + j] = v[j]
    <3>1. 2 + j \in 1 .. 2 + Len(v) /\ ~(2 + j <= 2) /\ (2 + j) - 2 = j
      BY <1>3
    <3> QED
      BY <2>1, <3>1
  <2> QED
    BY <1>2, <2>1, <2>2, <2>3
<1>5. SubSeq(t, 3, Len(t)) = v
  <2>1. SubSeq(h \o v, Len(h) + 1, Len(h \o v)) = v
    BY <1>1, Behind
  <2> QED
    BY <1>1, <2>1
<1> HIDE DEF t
<1>6. First(t, {"="}) = <<x>>
  <2>1. /\ Len(t) \in Nat /\ DOMAIN t = 1 .. Len(t) /\ 2 \in 1 .. (Len(t) + 1) /\ t[2] \in {"="}
        /\ \A j \in 1 .. (2 - 1) : t[j] \notin {"="}
    BY <1>3, <1>4, LenProperties
  <2>2. First(t, {"="}) = SubSeq(t, 1, 2 - 1)
    BY <2>1, FirstIs
  <2>3. SubSeq(t, 1, 1) = <<x>>
    <3> DEFINE one == <<x>>
    <3>1. one \in Seq({x}) /\ Len(one) = 1 /\ one[1] = x
      OBVIOUS
    <3> HIDE DEF one
    <3>2. IsSequence(one)
      BY <3>1, IsSequenceOf
    <3>3. \A i \in 1 .. Len(one) : t[1 + (i - 1)] = one[i]
      BY <1>4, <3>1
    <3> DEFINE a == 1
    <3>4. a \in Nat /\ \A i \in 1 .. Len(one) : t[a + (i - 1)] = one[i]
      BY <3>3
    <3> HIDE DEF a
    <3>5. SubSeq(t, a, a + (Len(one) - 1)) = one
      BY <3>2, <3>4, Slice
    <3> QED
      BY <3>1, <3>5 DEF one, a
  <2>4. 2 - 1 = 1
    OBVIOUS
  <2>5. First(t, {"="}) = SubSeq(t, 1, 1)
    BY <2>2, <2>4
  <2> QED
    BY <2>3, <2>5
<1>7. IsSequence(t)
  BY <1>4, IsSequenceOf
<1> QED
  BY <1>3, <1>4, <1>5, <1>6, <1>7 DEF IsPair, t, h

\* Fields that a link may carry: names that are no structure, values that are texts.
Fields(params) ==
    /\ IsSequence(params) /\ params # <<>>
    /\ \A i \in DOMAIN params : /\ params[i] = <<params[i][1], params[i][2]>>
                                /\ params[i][1] \notin {"#", "&", "="} /\ params[i][2] \in Text

\* One field as it goes into a link.
Part(params, i) ==
    (IF i = 1 THEN <<>> ELSE <<"&">>) \o <<params[i][1], "=">> \o percent_encode(params[i][2])

\* How many bytes are in front of it.
Lead(i) == IF i = 1 THEN 0 ELSE 1

\* What the fields of a link are made of.
Glyphs(params) == Coded \cup {"&", "="} \cup {params[i][1] : i \in DOMAIN params}

\* A field's bytes: a separator unless it is the first, its name, the sign and its value.
LEMMA PartIs ==
    ASSUME NEW params, Fields(params), NEW i \in DOMAIN params,
           NEW v, v = percent_encode(params[i][2]), NEW p, p = Part(params, i)
    PROVE  /\ v \in Seq(Coded) /\ Len(v) \in Nat /\ p \in Seq(Glyphs(params))
           /\ Len(p) = Lead(i) + 2 + Len(v)
           /\ i # 1 => p[1] = "&"
           /\ p[Lead(i) + 1] = params[i][1] /\ p[Lead(i) + 2] = "="
           /\ \A j \in 1 .. Len(v) : p[Lead(i) + 2 + j] = v[j]
<1> DEFINE G == Glyphs(params)
           x == params[i][1]
           sep == IF i = 1 THEN <<>> ELSE <<"&">>
           h == <<x, "=">>
           d == Lead(i)
<1>1. v \in Seq(Coded)
  <2> DEFINE s == params[i][2]
             F == [n \in 1 .. Len(s) |-> Code(s[n])]
  <2>1. s \in Text
    BY DEF Fields
  <2>2. PICK f : Grows(f, Len(s), <<>>, F, Coded) /\ v = f[Len(s)]
    BY <2>1, Encoded
  <2>3. Len(s) \in 0 .. Len(s)
    BY <2>1, LenProperties DEF Text
  <2> HIDE DEF F, s
  <2> QED
    BY <2>2, <2>3 DEF Grows
<1>2. v \in Seq(G) /\ Len(v) \in Nat /\ x \in G /\ "=" \in G /\ "&" \in G
  BY <1>1, SeqMonotonic, LenProperties DEF Glyphs
<1> HIDE DEF G, x
<1>3. /\ sep \in Seq(G) /\ Len(sep) = d /\ d \in {0, 1} /\ (i # 1 => d = 1 /\ sep[1] = "&")
  BY <1>2 DEF Lead
<1>4. h \in Seq(G) /\ Len(h) = 2 /\ h[1] = x /\ h[2] = "="
  BY <1>2
<1>5. p = (sep \o h) \o v
  BY DEF Part, x
<1> HIDE DEF sep, h, d
<1> DEFINE q == sep \o h
<1>6. /\ q \in Seq(G) /\ Len(q) = d + 2 /\ (i # 1 => q[1] = "&") /\ q[d + 1] = x /\ q[d + 2] = "="
  <2>1. /\ q \in Seq(G) /\ Len(q) = Len(sep) + Len(h)
        /\ \A j \in 1 .. Len(sep) + Len(h) : q[j] = IF j <= Len(sep) THEN sep[j] ELSE h[j - Len(sep)]
    BY <1>3, <1>4, ConcatProperties
  <2> HIDE DEF q
  <2>2. /\ Len(q) = d + 2
        /\ \A j \in 1 .. d + 2 : q[j] = IF j <= d THEN sep[j] ELSE h[j - d]
    BY <1>3, <1>4, <2>1
  <2>3. /\ d + 1 \in 1 .. d + 2 /\ ~(d + 1 <= d) /\ (d + 1) - d = 1
        /\ d + 2 \in 1 .. d + 2 /\ ~(d + 2 <= d) /\ (d + 2) - d = 2
    BY <1>3
  <2>4. q[d + 1] = x /\ q[d + 2] = "="
    BY <1>4, <2>2, <2>3
  <2>5. i # 1 => q[1] = "&"
    <3>1. i # 1 => d = 1 /\ 1 \in 1 .. d + 2 /\ 1 <= d
      BY <1>3
    <3> QED
      BY <1>3, <2>2, <3>1
  <2> QED
    BY <2>1, <2>2, <2>4, <2>5
<1> HIDE DEF q
<1>7. /\ p \in Seq(G) /\ Len(p) = d + 2 + Len(v)
      /\ \A j \in 1 .. d + 2 + Len(v) : p[j] = IF j <= d + 2 THEN q[j] ELSE v[j - (d + 2)]
  <2>0. p = q \o v
    BY <1>5 DEF q
  <2>1. /\ q \o v \in Seq(G) /\ Len(q \o v) = Len(q) + Len(v)
        /\ \A j \in 1 .. Len(q) + Len(v) : (q \o v)[j] = IF j <= Len(q) THEN q[j] ELSE v[j - Len(q)]
    BY <1>2, <1>6, ConcatProperties
  <2> QED
    BY <1>6, <2>0, <2>1
<1>8. \A j \in 1 .. d + 2 : p[j] = q[j]
  BY <1>2, <1>3, <1>7
<1>9. 1 \in 1 .. d + 2 /\ d + 1 \in 1 .. d + 2 /\ d + 2 \in 1 .. d + 2
  BY <1>3
<1>10. ASSUME NEW j \in 1 .. Len(v) PROVE p[d + 2 + j] = v[j]
  <2>1. d + 2 + j \in 1 .. d + 2 + Len(v) /\ ~(d + 2 + j <= d + 2) /\ (d + 2 + j) - (d + 2) = j
    BY <1>2, <1>3
  <2> QED
    BY <1>7, <2>1
<1> QED
  BY <1>1, <1>2, <1>6, <1>7, <1>8, <1>9, <1>10 DEF G, x, d

\* A query of fields, written in N rounds f, as q.
Asked(params, f, q) ==
    /\ Fields(params) /\ q = f[Len(params)]
    /\ Grows(f, Len(params), <<>>, [i \in 1 .. Len(params) |-> Part(params, i)], Glyphs(params))

\* Query is a loop over the fields.
LEMMA QueryOf ==
    ASSUME NEW params, Fields(params)
    PROVE  \E f : Asked(params, f, Query(params))
<1> DEFINE N == Len(params)
           F == [i \in 1 .. N |-> Part(params, i)]
           G == Glyphs(params)
<1>1. N \in Nat /\ DOMAIN params = 1 .. N
  BY LenProperties DEF Fields, IsSequence
<1>2. \A i \in 1 .. N : Part(params, i) \in Seq(G)
  BY <1>1, PartIs
<1> HIDE DEF G
<1>3. F \in [1 .. N -> Seq(G)]
  BY <1>2
<1>4. Query(params) = Ext!FlattenSeq(F)
  <2>1. F = [i \in DOMAIN params |->
                  (IF i = 1 THEN <<>> ELSE <<"&">>)
                  \o <<params[i][1], "=">> \o percent_encode(params[i][2])]
    BY <1>1 DEF Part
  <2> QED
    BY <2>1 DEF Query
<1> HIDE DEF F, N
<1>5. PICK f : Appends(f, N, <<>>, F) /\ Ext!FlattenSeq(F) = f[N]
  BY <1>1, <1>3, Flattened
<1>6. <<>> \in Seq(G)
  OBVIOUS
<1>7. Grows(f, N, <<>>, F, G)
  BY <1>1, <1>3, <1>5, <1>6, AppendsPrefix
<1> QED
  BY <1>4, <1>5, <1>7 DEF Asked, N, F, G

\* How the fields lie in a query: each behind the one before, with its separator.
Lies(params, f, q) ==
    /\ q \in Seq(Glyphs(params)) /\ Len(params) \in Nat /\ Len(params) >= 1 /\ DOMAIN params = 1 .. Len(params)
    /\ Len(f[0]) = 0 /\ Len(f[Len(params)]) = Len(q)
    /\ \A n \in 0 .. Len(params) : Len(f[n]) \in Nat /\ Len(f[n]) <= Len(q)
    /\ \A n \in 1 .. Len(params) :
          /\ Part(params, n) \in Seq(Glyphs(params))
          /\ Len(f[n]) = Len(f[n - 1]) + Len(Part(params, n))
          /\ \A m \in 1 .. n : Len(f[m]) <= Len(f[n])
          /\ \A i \in 1 .. Len(Part(params, n)) : q[Len(f[n - 1]) + i] = Part(params, n)[i]
    /\ \A j \in 1 .. Len(q) : \E n \in 1 .. Len(params) :
          \E i \in 1 .. Len(Part(params, n)) : j = Len(f[n - 1]) + i

\* In every query they do.
LEMMA FieldAt ==
    ASSUME NEW params, NEW f, NEW q, Asked(params, f, q)
    PROVE  Lies(params, f, q)
<1> DEFINE N == Len(params)
           F == [i \in 1 .. N |-> Part(params, i)]
           G == Glyphs(params)
<1>1. N \in Nat /\ DOMAIN params = 1 .. N /\ N # 0
  BY LenProperties, EmptySeq DEF Asked, Fields, IsSequence
<1>2. F \in [1 .. N -> Seq(G)] /\ \A n \in 1 .. N : F[n] = Part(params, n)
  BY <1>1, PartIs DEF Asked
<1>3. Grows(f, N, <<>>, F, G) /\ q = f[N]
  BY DEF Asked
<1> HIDE DEF F, G, N
<1>4. \A j \in 1 .. Len(q) : \E n \in 1 .. N : \E i \in 1 .. Len(F[n]) : j = Len(f[n - 1]) + i
  <2> DEFINE H == <<>>
  <2>1. 1 .. Len(H) = {}
    OBVIOUS
  <2>2. Grows(f, N, H, F, G)
    BY <1>3
  <2> HIDE DEF H
  <2>3. Covered(f, N, H, F)
    BY <1>1, <1>2, <2>2, AppendsCover
  <2> QED
    BY <1>3, <2>1, <2>3 DEF Covered
<1>5. /\ f[0] = <<>>
      /\ \A n \in 0 .. N : f[n] \in Seq(G) /\ Len(f[n]) \in Nat
      /\ \A n \in 1 .. N : Len(f[n]) = Len(f[n - 1]) + Len(F[n])
      /\ \A n \in 0 .. N : \A m \in 0 .. n : Len(f[m]) <= Len(f[n])
      /\ \A n \in 1 .. N : \A i \in 1 .. Len(F[n]) : f[N][Len(f[n - 1]) + i] = F[n][i]
  BY <1>3 DEF Grows
<1>6. N \in 0 .. N /\ \A n \in 1 .. N : n \in 0 .. N /\ 1 .. n \subseteq 0 .. n
  BY <1>1
<1>7. /\ q \in Seq(G) /\ Len(f[0]) = 0 /\ Len(f[N]) = Len(q)
      /\ \A n \in 0 .. N : Len(f[n]) \in Nat /\ Len(f[n]) <= Len(q)
      /\ \A n \in 1 .. N : \A m \in 1 .. n : Len(f[m]) <= Len(f[n])
  BY <1>3, <1>5, <1>6
<1>8. N >= 1
  BY <1>1
<1>9. ASSUME NEW n \in 1 .. N
      PROVE  /\ Part(params, n) \in Seq(G)
             /\ Len(f[n]) = Len(f[n - 1]) + Len(Part(params, n))
             /\ \A m \in 1 .. n : Len(f[m]) <= Len(f[n])
             /\ \A i \in 1 .. Len(Part(params, n)) : q[Len(f[n - 1]) + i] = Part(params, n)[i]
  <2>1. F[n] = Part(params, n) /\ F[n] \in Seq(G)
    BY <1>2
  <2> QED
    BY <1>3, <1>5, <1>7, <2>1
<1>10. \A j \in 1 .. Len(q) : \E n \in 1 .. N : \E i \in 1 .. Len(Part(params, n)) : j = Len(f[n - 1]) + i
  BY <1>2, <1>4
<1> QED
  BY <1>1, <1>7, <1>8, <1>9, <1>10 DEF N, G, Lies

\* The bytes of one field in a query.
LEMMA FieldBytes ==
    ASSUME NEW params, NEW f, NEW q, Asked(params, f, q),
           NEW m \in 1 .. Len(params), NEW k \in 1 .. Len(Part(params, m))
    PROVE  q[Len(f[m - 1]) + k] = Part(params, m)[k]
<1>0. Lies(params, f, q)
  BY FieldAt
<1>1. \A n \in 1 .. Len(params) : \A i \in 1 .. Len(Part(params, n)) :
         q[Len(f[n - 1]) + i] = Part(params, n)[i]
  BY <1>0 DEF Lies
<1> QED
  BY <1>1

\* No fragment begins in a query, and an ampersand is only where a field begins.
LEMMA Separators ==
    ASSUME NEW params, NEW f, NEW q, Asked(params, f, q), NEW j \in 1 .. Len(q)
    PROVE  /\ q[j] # "#"
           /\ q[j] = "&" <=> \E n \in 1 .. Len(params) : n # 1 /\ j = Len(f[n - 1]) + 1
<1>0. Lies(params, f, q)
  BY FieldAt
<1> DEFINE N == Len(params)
<1>1. PICK n \in 1 .. N : \E i \in 1 .. Len(Part(params, n)) : j = Len(f[n - 1]) + i
  BY <1>0 DEF Lies
<1>2. PICK i \in 1 .. Len(Part(params, n)) : j = Len(f[n - 1]) + i
  BY <1>1
<1> DEFINE p == Part(params, n)
           v == percent_encode(params[n][2])
           d == Lead(n)
           x == params[n][1]
<1>3. q[j] = p[i]
  <2>1. \A m \in 1 .. Len(params) : \A k \in 1 .. Len(Part(params, m)) :
           q[Len(f[m - 1]) + k] = Part(params, m)[k]
    BY FieldBytes
  <2>2. n \in 1 .. Len(params)
    OBVIOUS
  <2> HIDE DEF N
  <2> QED
    BY <1>2, <2>1, <2>2
<1>4. /\ v \in Seq(Coded) /\ Len(v) \in Nat
      /\ Len(p) = d + 2 + Len(v)
      /\ n # 1 => p[1] = "&"
      /\ p[d + 1] = x /\ p[d + 2] = "="
      /\ \A k \in 1 .. Len(v) : p[d + 2 + k] = v[k]
  <2>1. Fields(params) /\ n \in DOMAIN params
    BY <1>0 DEF Lies, Asked
  <2> QED
    BY <2>1, PartIs
<1>5. x \notin {"#", "&", "="}
  BY <1>0 DEF Lies, Asked, Fields
<1>6. d = (IF n = 1 THEN 0 ELSE 1) /\ n \in Nat
  BY <1>0 DEF Lies, Lead
<1> HIDE DEF p, v, d, x
<1>7. p[i] # "#" /\ (p[i] = "&" <=> n # 1 /\ i = 1)
  <2>1. CASE i <= d
    <3>1. i = 1 /\ n # 1
      BY <1>6, <2>1
    <3> QED
      BY <1>4, <3>1
  <2>2. CASE i = d + 1
    BY <1>4, <1>5, <1>6, <2>2
  <2>3. CASE i = d + 2
    BY <1>4, <1>6, <2>3
  <2>4. CASE i > d + 2
    <3>1. i - (d + 2) \in 1 .. Len(v) /\ d + 2 + (i - (d + 2)) = i
      BY <1>2, <1>4, <1>6, <2>4 DEF p
    <3>2. p[i] = v[i - (d + 2)] /\ v[i - (d + 2)] \in Coded
      BY <1>4, <3>1, ElementOfSeq
    <3>3. p[i] \notin {"#", "&"} /\ i # 1
      BY <1>6, <2>4, <3>2, CodedIsPlain
    <3> QED
      BY <3>3
  <2> QED
    BY <1>2, <1>6, <2>1, <2>2, <2>3, <2>4
<1>8. ASSUME NEW m \in 1 .. N, m # 1, j = Len(f[m - 1]) + 1 PROVE q[j] = "&"
  <2> DEFINE r == Part(params, m)
  <2>0. m \in DOMAIN params /\ Fields(params)
    BY <1>0 DEF Lies, Asked
  <2>1. /\ Len(r) = Lead(m) + 2 + Len(percent_encode(params[m][2]))
        /\ Len(percent_encode(params[m][2])) \in Nat /\ r[1] = "&"
    BY <1>8, <2>0, PartIs
  <2>2. 1 \in 1 .. Len(r)
    <3> DEFINE k == Len(percent_encode(params[m][2]))
    <3>1. Len(r) = 1 + 2 + k /\ k \in Nat
      BY <1>8, <2>1 DEF Lead
    <3> HIDE DEF k, r
    <3> QED
      BY <3>1
  <2>3. q[Len(f[m - 1]) + 1] = r[1]
    <3>1. \A h \in 1 .. Len(Part(params, m)) : q[Len(f[m - 1]) + h] = Part(params, m)[h]
      BY <1>0 DEF Lies
    <3> QED
      BY <2>2, <3>1
  <2> QED
    BY <1>8, <2>1, <2>3
<1>9. q[j] = "&" => \E m \in 1 .. N : m # 1 /\ j = Len(f[m - 1]) + 1
  BY <1>2, <1>3, <1>7
<1> QED
  BY <1>3, <1>7, <1>8, <1>9

\* One field as it stands in a query, behind its separator.
Pair(field) == <<field[1], "=">> \o percent_encode(field[2])

\* What a pair is made of.
LEMMA PairIs ==
    ASSUME NEW params, Fields(params), NEW k \in DOMAIN params
    PROVE  IsPair(Pair(params[k]), params[k][1], percent_encode(params[k][2]))
<1> DEFINE G == Glyphs(params)
           x == params[k][1]
           v == percent_encode(params[k][2])
<1>1. v \in Seq(Coded) /\ x # "="
  BY PartIs DEF Fields
<1>2. v \in Seq(G) /\ x \in G /\ "=" \in G
  BY <1>1, SeqMonotonic DEF Glyphs
<1> HIDE DEF G, x, v
<1>3. IsPair(<<x, "=">> \o v, x, v)
  BY <1>1, <1>2, OneField
<1> QED
  BY <1>3 DEF Pair, x, v

\* Where the fields begin and end.
Cut(f, k) == IF k = 0 THEN 0 ELSE Len(f[k]) + 1

\* At the ampersands a query falls into its fields, whatever their values hold.
LEMMA SplitQuery ==
    ASSUME NEW params, NEW f, NEW q, Asked(params, f, q)
    PROVE  Split(q, {"&"}) = [k \in 1 .. Len(params) |-> Pair(params[k])]
<1>0. Lies(params, f, q)
  BY FieldAt
<1> DEFINE N == Len(params)
           c == [k \in 0 .. N |-> Cut(f, k)]
<1>1. /\ N \in Nat \ {0} /\ DOMAIN params = 1 .. N /\ Len(q) \in Nat /\ DOMAIN q = 1 .. Len(q)
      /\ Len(f[0]) = 0 /\ Len(f[N]) = Len(q)
      /\ \A n \in 0 .. N : Len(f[n]) \in Nat /\ Len(f[n]) <= Len(q)
      /\ \A n \in 1 .. N : \A m \in 1 .. n : Len(f[m]) <= Len(f[n])
      /\ Fields(params)
  BY <1>0, LenProperties DEF Lies, Asked
<1>2. ASSUME NEW n \in 1 .. N
      PROVE  LET v == percent_encode(params[n][2]) IN
             /\ Len(v) \in Nat /\ Len(f[n]) = Len(f[n - 1]) + (Lead(n) + 2 + Len(v))
             /\ q[Len(f[n - 1]) + (Lead(n) + 1)] = params[n][1]
             /\ q[Len(f[n - 1]) + (Lead(n) + 2)] = "="
             /\ \A j \in 1 .. Len(v) : q[Len(f[n - 1]) + (Lead(n) + 2 + j)] = v[j]
  <2> DEFINE v == percent_encode(params[n][2])
             p == Part(params, n)
             d == Lead(n)
  <2>1. /\ Len(v) \in Nat /\ Len(p) = d + 2 + Len(v)
        /\ p[d + 1] = params[n][1] /\ p[d + 2] = "="
        /\ \A j \in 1 .. Len(v) : p[d + 2 + j] = v[j]
    BY <1>1, PartIs
  <2>2. Len(f[n]) = Len(f[n - 1]) + Len(p) /\ \A i \in 1 .. Len(p) : q[Len(f[n - 1]) + i] = p[i]
    <3>1. \A m \in 1 .. Len(params) :
             /\ Len(f[m]) = Len(f[m - 1]) + Len(Part(params, m))
             /\ \A i \in 1 .. Len(Part(params, m)) : q[Len(f[m - 1]) + i] = Part(params, m)[i]
      BY <1>0 DEF Lies
    <3>2. n \in 1 .. Len(params)
      OBVIOUS
    <3> HIDE DEF N
    <3> QED
      BY <3>1, <3>2
  <2>3. d \in {0, 1}
    BY DEF Lead
  <2> HIDE DEF v, p, d
  <2>4. d + 1 \in 1 .. Len(p) /\ d + 2 \in 1 .. Len(p) /\ \A j \in 1 .. Len(v) : d + 2 + j \in 1 .. Len(p)
    BY <2>1, <2>3
  <2>5. /\ q[Len(f[n - 1]) + (d + 1)] = params[n][1] /\ q[Len(f[n - 1]) + (d + 2)] = "="
        /\ \A j \in 1 .. Len(v) : q[Len(f[n - 1]) + (d + 2 + j)] = v[j]
    BY <2>1, <2>2, <2>4
  <2> QED
    BY <2>1, <2>2, <2>5 DEF v, d
<1>3. \A k \in 1 .. N : Len(f[k - 1]) < Len(f[k])
  <2> TAKE k \in 1 .. N
  <2> DEFINE a == Len(f[k - 1])
             l == Len(percent_encode(params[k][2]))
  <2>0. k - 1 \in 0 .. N /\ Lead(k) \in {0, 1}
    BY <1>1 DEF Lead
  <2>1. Len(f[k]) = a + (Lead(k) + 2 + l) /\ l \in Nat /\ a \in Nat
    BY <1>1, <1>2, <2>0
  <2> HIDE DEF a, l
  <2>2. a < Len(f[k])
    BY <2>0, <2>1
  <2> QED
    BY <2>2 DEF a
<1>4. c \in [0 .. N -> Nat]
  BY <1>1 DEF Cut
<1>5. \A i, j \in 0 .. N : i < j => c[i] < c[j]
  <2> SUFFICES ASSUME NEW i \in 0 .. N, NEW j \in 0 .. N, i < j PROVE Cut(f, i) < Cut(f, j)
    OBVIOUS
  <2>1. CASE i = 0
    BY <1>1, <2>1 DEF Cut
  <2>2. CASE i # 0
    <3>1. j \in 1 .. N /\ j - 1 \in 1 .. N /\ i \in 1 .. (j - 1) /\ j # 0
      BY <2>2
    <3> DEFINE a == Len(f[i])
               b == Len(f[j - 1])
               e == Len(f[j])
    <3>2. a <= b /\ b < e /\ a \in Nat /\ b \in Nat /\ e \in Nat
      <4>1. a <= b
        BY <1>1, <3>1
      <4>2. b < e
        BY <1>3, <3>1
      <4>3. j - 1 \in 0 .. N
        BY <3>1
      <4>4. a \in Nat /\ b \in Nat /\ e \in Nat
        BY <1>1, <4>3
      <4> QED
        BY <4>1, <4>2, <4>4
    <3> HIDE DEF a, b, e
    <3>3. a + 1 < e + 1
      BY <3>2
    <3> QED
      BY <2>2, <3>1, <3>3 DEF Cut, a, e
  <2> QED
    BY <2>1, <2>2
<1>6. {0, Len(q) + 1} \cup {i \in DOMAIN q : q[i] \in {"&"}} = {c[k] : k \in 0 .. N}
  <2>1. ASSUME NEW x \in DOMAIN q, q[x] = "&" PROVE \E k \in 0 .. N : x = c[k]
    <3>1. PICK n \in 1 .. N : n # 1 /\ x = Len(f[n - 1]) + 1
      BY <1>1, <2>1, Separators
    <3>2. n - 1 \in 0 .. N /\ n - 1 # 0
      BY <3>1
    <3>3. c[n - 1] = Len(f[n - 1]) + 1
      BY <3>2 DEF Cut
    <3> QED
      BY <3>1, <3>2, <3>3
  <2>2. 0 \in 0 .. N /\ c[0] = 0 /\ N \in 0 .. N /\ c[N] = Len(q) + 1
    BY <1>1 DEF Cut
  <2>3. ASSUME NEW k \in 0 .. N, k # 0, k # N PROVE c[k] \in DOMAIN q /\ q[c[k]] = "&"
    <3> DEFINE j == k + 1
               x == Len(f[k]) + 1
    <3>1. j \in 1 .. N /\ j # 1 /\ j - 1 = k /\ c[k] = x
      BY <2>3 DEF Cut
    <3>2. x \in 1 .. Len(q)
      <4> DEFINE a == Len(f[k])
                 b == Len(f[j])
      <4>1. a < b /\ b <= Len(q) /\ a \in Nat /\ b \in Nat
        BY <1>1, <1>3, <3>1
      <4> HIDE DEF a, b
      <4>2. a + 1 \in 1 .. Len(q)
        BY <1>1, <4>1
      <4> QED
        BY <4>2 DEF a
    <3> HIDE DEF j, x
    <3>3. x = Len(f[j - 1]) + 1
      BY <3>1 DEF x
    <3>4. q[x] = "&"
      BY <3>1, <3>2, <3>3, Separators
    <3> QED
      BY <1>1, <3>1, <3>2, <3>4
  <2> HIDE DEF c
  <2>4. \A k \in 0 .. N : c[k] \in {0, Len(q) + 1} \cup {i \in DOMAIN q : q[i] \in {"&"}}
    BY <2>2, <2>3
  <2> QED
    BY <2>1, <2>2, <2>4
<1>7. Split(q, {"&"}) = [k \in 1 .. N |-> SubSeq(q, c[k - 1] + 1, c[k] - 1)]
  <2> HIDE DEF c, N
  <2> DEFINE class == {"&"}
  <2>1. CutAt(q, class, N, c)
    BY <1>1, <1>4, <1>5, <1>6 DEF CutAt
  <2> HIDE DEF class
  <2>2. Split(q, class) = [k \in 1 .. N |-> SubSeq(q, c[k - 1] + 1, c[k] - 1)]
    BY <2>1, SplitAt
  <2> QED
    BY <2>2 DEF class
<1>8. ASSUME NEW k \in 1 .. N PROVE SubSeq(q, c[k - 1] + 1, c[k] - 1) = Pair(params[k])
  <2> DEFINE t == Pair(params[k])
             v == percent_encode(params[k][2])
             a == c[k - 1] + 1
             b == Len(f[k - 1])
             d == Lead(k)
  <2>1. /\ IsSequence(t) /\ Len(t) = 2 + Len(v) /\ Len(v) \in Nat
        /\ t[1] = params[k][1] /\ t[2] = "=" /\ \A j \in 1 .. Len(v) : t[2 + j] = v[j]
    BY <1>1, PairIs DEF IsPair
  <2>2. /\ b \in Nat /\ d \in {0, 1} /\ a = b + d + 1 /\ c[k] - 1 = Len(f[k]) /\ Len(f[k]) \in Nat
    <3>1. k - 1 \in 0 .. N /\ k \in 0 .. N /\ k # 0 /\ (k - 1 = 0 <=> k = 1)
      OBVIOUS
    <3>2. c[k - 1] = Cut(f, k - 1) /\ c[k] = Cut(f, k)
      BY <3>1
    <3>3. b \in Nat /\ Len(f[k]) \in Nat /\ (k = 1 => b = 0)
      BY <1>1, <3>1
    <3>4. c[k - 1] = (IF k = 1 THEN 0 ELSE b + 1) /\ c[k] = Len(f[k]) + 1
      BY <3>1, <3>2 DEF Cut
    <3> HIDE DEF b, c
    <3> QED
      BY <3>3, <3>4 DEF Lead
  <2>3. /\ Len(f[k]) = b + (d + 2 + Len(v))
        /\ q[b + (d + 1)] = params[k][1] /\ q[b + (d + 2)] = "="
        /\ \A j \in 1 .. Len(v) : q[b + (d + 2 + j)] = v[j]
    BY <1>2
  <2> HIDE DEF t, v, a, b, c, d
  <2>4. a \in Nat /\ c[k] - 1 = a + (Len(t) - 1)
    BY <2>1, <2>2, <2>3
  <2>5. \A i \in 1 .. Len(t) : q[a + (i - 1)] = t[i]
    <3> TAKE i \in 1 .. Len(t)
    <3>1. CASE i = 1
      <4>1. a + (i - 1) = b + (d + 1)
        BY <2>2, <3>1
      <4> QED
        BY <2>1, <2>3, <3>1, <4>1
    <3>2. CASE i = 2
      <4>1. a + (i - 1) = b + (d + 2)
        BY <2>2, <3>2
      <4> QED
        BY <2>1, <2>3, <3>2, <4>1
    <3>3. CASE i # 1 /\ i # 2
      <4> DEFINE j == i - 2
      <4>1. j \in 1 .. Len(v) /\ a + (i - 1) = b + (d + 2 + j) /\ 2 + j = i
        BY <2>1, <2>2, <3>3
      <4> HIDE DEF j
      <4> QED
        BY <2>1, <2>3, <4>1
    <3> QED
      BY <3>1, <3>2, <3>3
  <2>6. SubSeq(q, a, a + (Len(t) - 1)) = t
    <3>1. a \in Nat
      BY <2>4
    <3>2. IsSequence(t)
      BY <2>1
    <3> QED
      BY <2>5, <3>1, <3>2, Slice
  <2> QED
    BY <2>4, <2>6 DEF a, t
<1> HIDE DEF c
<1> QED
  BY <1>7, <1>8

\* What a form shows of a link is what went into it (intake.rs:57).
LEMMA FormShows ==
    ASSUME NEW params, Fields(params), NEW a, NEW b, NEW c
    PROVE  Form(<<a, b, c>> \o Query(params)) = params
<1> DEFINE q == Query(params)
           h == <<a, b, c>>
           url == h \o q
           G == Glyphs(params)
<1>1. PICK f : Asked(params, f, q)
  BY QueryOf
<1>0. Lies(params, f, q)
  BY <1>1, FieldAt
<1> HIDE DEF q
<1>2. /\ q \in Seq(G) /\ Len(q) \in Nat /\ DOMAIN q = 1 .. Len(q) /\ Len(params) \in Nat
      /\ DOMAIN params = 1 .. Len(params)
  BY <1>1, <1>0, LenProperties DEF Lies
<1>3. SubSeq(url, 4, Len(url)) = q
  <2> DEFINE S == G \cup {a, b, c}
  <2>1. h \in Seq(S) /\ Len(h) = 3 /\ q \in Seq(S)
    BY <1>2, SeqMonotonic
  <2> HIDE DEF h, S
  <2>2. SubSeq(h \o q, Len(h) + 1, Len(h \o q)) = q
    BY <2>1, Behind
  <2> QED
    BY <2>1, <2>2
<1>4. First(q, {"#"}) = q
  <2> DEFINE p == Len(q) + 1
  <2>1. /\ p \in 1 .. (Len(q) + 1) /\ p = Len(q) + 1 /\ p - 1 = Len(q)
        /\ \A j \in 1 .. (p - 1) : q[j] \notin {"#"}
    BY <1>1, <1>2, Separators
  <2> HIDE DEF p
  <2>2. First(q, {"#"}) = SubSeq(q, 1, p - 1)
    BY <1>2, <2>1, FirstIs
  <2> QED
    BY <1>2, <2>1, <2>2, SubSeqFull
<1>5. Split(q, {"&"}) = [k \in 1 .. Len(params) |-> Pair(params[k])]
  BY <1>1, SplitQuery
<1> DEFINE pairs == Split(First(SubSeq(url, 4, Len(url)), {"#"}), {"&"})
<1>6. pairs = [k \in 1 .. Len(params) |-> Pair(params[k])]
  BY <1>3, <1>4, <1>5
<1>7. Form(url) = [i \in DOMAIN pairs |->
          LET name == First(pairs[i], {"="})
          IN <<name[1], Decoded(SubSeq(pairs[i], Len(name) + 2, Len(pairs[i])))>>]
  BY DEF Form
<1> HIDE DEF pairs, url
<1>8. ASSUME NEW k \in 1 .. Len(params)
      PROVE  LET name == First(pairs[k], {"="})
             IN <<name[1], Decoded(SubSeq(pairs[k], Len(name) + 2, Len(pairs[k])))>> = params[k]
  <2> DEFINE t == Pair(params[k])
             name == First(t, {"="})
             x == params[k][1]
             s == params[k][2]
  <2>1. pairs[k] = t
    BY <1>6
  <2>2. name = <<x>> /\ SubSeq(t, 3, Len(t)) = percent_encode(s)
    BY <1>2, PairIs DEF IsPair
  <2>3. s \in Text /\ params[k] = <<x, s>>
    BY <1>2 DEF Fields
  <2>4. Decoded(percent_encode(s)) = s
    BY <2>3, RoundTrip
  <2> HIDE DEF name, t, x, s
  <2>5. Len(name) + 2 = 3 /\ name[1] = x
    BY <2>2
  <2>6. <<name[1], Decoded(SubSeq(t, Len(name) + 2, Len(t)))>> = <<x, s>>
    BY <2>2, <2>4, <2>5
  <2> QED
    BY <2>1, <2>3, <2>6 DEF name
<1>9. DOMAIN pairs = 1 .. Len(params)
  BY <1>6
<1>10. Form(url) = [k \in 1 .. Len(params) |-> params[k]]
  BY <1>7, <1>8, <1>9
<1>11. params = [k \in 1 .. Len(params) |-> params[k]]
  <2>1. params \in Seq(Elems(params))
    BY DEF Fields, IsSequence
  <2> QED
    BY <2>1, LenProperties
<1> QED
  BY <1>10, <1>11 DEF url, q

-----------------------------------------------------------------------------
(* A request for an issue.                                                    *)

\* Labels with commas between them are a text.
LEMMA LabelsAreText ==
    ASSUME NEW parts, IsSequence(parts), \A i \in DOMAIN parts : parts[i] \in Text
    PROVE  CommaJoined(parts) \in Text
<1> DEFINE N == Len(parts)
           S == Unreserved \cup Reserved
           F == [i \in 1 .. N |-> (IF i = 1 THEN <<>> ELSE <<",">>) \o parts[i]]
<1>1. N \in Nat /\ DOMAIN parts = 1 .. N
  BY LenProperties DEF IsSequence
<1>0. "," \in S
  BY IntakeAssumption
<1>2. \A i \in 1 .. N : parts[i] \in Seq(S)
  BY <1>1 DEF Text
<1>3. CommaJoined(parts) = Ext!FlattenSeq(F)
  BY <1>1 DEF CommaJoined
<1> HIDE DEF S
<1>4. F \in [1 .. N -> Seq(S)]
  <2>1. \A i \in 1 .. N : (IF i = 1 THEN <<>> ELSE <<",">>) \o parts[i] \in Seq(S)
    <3> TAKE i \in 1 .. N
    <3>1. \A s, t \in Seq(S) : s \o t \in Seq(S)
      BY ConcatProperties
    <3>2. <<>> \in Seq(S) /\ <<",">> \in Seq(S)
      <4>1. \A x \in S : <<x>> \in Seq(S)
        OBVIOUS
      <4>2. <<>> \in Seq(S)
        OBVIOUS
      <4>3. <<",">> \in Seq(S)
        BY <1>0, <4>1
      <4> QED
        BY <4>2, <4>3
    <3> QED
      BY <1>2, <3>1, <3>2
  <2> QED
    BY <2>1
<1> HIDE DEF F, N
<1>5. PICK f : Appends(f, N, <<>>, F) /\ Ext!FlattenSeq(F) = f[N]
  BY <1>1, <1>4, Flattened
<1>6. <<>> \in Seq(S)
  OBVIOUS
<1>7. Grows(f, N, <<>>, F, S)
  BY <1>1, <1>4, <1>5, <1>6, AppendsPrefix
<1>8. f[N] \in Seq(S)
  BY <1>1, <1>7 DEF Grows
<1> QED
  BY <1>3, <1>5, <1>8 DEF Text, S

\* Two sequences behind one another.
LEMMA Joined ==
    ASSUME NEW S, NEW s \in Seq(S), NEW t \in Seq(S)
    PROVE  s \o t \in Seq(S) /\ Len(s \o t) = Len(s) + Len(t) /\ Len(s) \in Nat /\ Len(t) \in Nat
BY ConcatProperties, LenProperties

\* A field that may be in a link.
Field(p) == p = <<p[1], p[2]>> /\ p[1] \notin {"#", "&", "="} /\ p[2] \in Text

\* A sequence of such fields may go into a link.
LEMMA FieldsAre ==
    ASSUME NEW S, \A p \in S : Field(p), NEW s \in Seq(S), s # <<>>
    PROVE  Fields(s)
<1>1. IsSequence(s)
  BY IsSequenceOf
<1>2. \A i \in DOMAIN s : s[i] \in S
  BY LenProperties, ElementOfSeq
<1> QED
  BY <1>1, <1>2 DEF Fields, Field

\* A request as the model has it.
IsRequest(request) ==
    /\ request.title \in Text /\ request.body \in Text /\ request.template \in Text
    /\ IsSequence(request.labels) /\ \A i \in DOMAIN request.labels : request.labels[i] \in Text

\* What the links of a request carry are such fields (intake.rs:44, intake.rs:88).
LEMMA RequestFields ==
    ASSUME NEW request, IsRequest(request)
    PROVE  Fields(Params(request)) /\ Fields(MailParams(request.title, request.body))
<1> DEFINE S == {<<name, s>> : name \in {"title", "body", "template", "labels", "subject"}, s \in Text}
<1>1. \A p \in S : Field(p)
  BY DEF Field
<1>2. CommaJoined(request.labels) \in Text
  BY LabelsAreText DEF IsRequest
<1> DEFINE t == <<"title", request.title>>
           b == <<"body", request.body>>
           m == <<"template", request.template>>
           l == <<"labels", CommaJoined(request.labels)>>
           u == <<"subject", request.title>>
           x == IF request.template = <<>> THEN <<>> ELSE <<m>>
           y == IF request.labels = <<>> THEN <<>> ELSE <<l>>
<1>3. t \in S /\ b \in S /\ m \in S /\ l \in S /\ u \in S
  BY <1>2 DEF IsRequest
<1>4. Params(request) = (<<t, b>> \o x) \o y /\ MailParams(request.title, request.body) = <<u, b>>
  BY DEF Params, MailParams
<1> HIDE DEF S, t, b, m, l, u
<1>5. <<t, b>> \in Seq(S) /\ Len(<<t, b>>) = 2 /\ x \in Seq(S) /\ y \in Seq(S) /\ <<u, b>> \in Seq(S) /\ <<u, b>> # <<>>
  BY <1>3
<1> DEFINE h == <<t, b>>
<1>6. h \in Seq(S) /\ Len(h) = 2
  BY <1>5
<1> HIDE DEF x, y, h
<1>7. h \o x \in Seq(S) /\ Len(h \o x) = 2 + Len(x) /\ Len(x) \in Nat
  <2>1. h \o x \in Seq(S) /\ Len(h \o x) = Len(h) + Len(x) /\ Len(x) \in Nat
    BY <1>5, <1>6, Joined
  <2> QED
    BY <1>6, <2>1
<1>8. (h \o x) \o y \in Seq(S) /\ Len((h \o x) \o y) = (2 + Len(x)) + Len(y) /\ Len(y) \in Nat
  <2>1. \A s \in Seq(S) : s \o y \in Seq(S) /\ Len(s \o y) = Len(s) + Len(y) /\ Len(y) \in Nat
    BY <1>5, Joined
  <2> DEFINE s == h \o x
  <2>2. s \in Seq(S) /\ Len(s) = 2 + Len(x)
    BY <1>7
  <2> HIDE DEF s
  <2>3. s \o y \in Seq(S) /\ Len(s \o y) = (2 + Len(x)) + Len(y) /\ Len(y) \in Nat
    BY <2>1, <2>2
  <2> QED
    BY <2>3 DEF s
<1>9. (h \o x) \o y # <<>>
  BY <1>7, <1>8, EmptySeq
<1>10. Fields((h \o x) \o y) /\ Fields(<<u, b>>)
  BY <1>1, <1>5, <1>8, <1>9, FieldsAre
<1> QED
  BY <1>4, <1>10 DEF h

\* What the form and the mail program show of a request is what the user wrote: no
\* ampersand, equals sign or number sign in a title, a body or a label adds a field, cuts
\* one or moves a byte to another one (intake.rs:44, intake.rs:88).
THEOREM LinksShow ==
    ASSUME NEW request, IsRequest(request), NEW address
    PROVE  /\ Form(to_url(request)) = Params(request)
           /\ Form(mailto_url(address, request.title, request.body)) =
                 MailParams(request.title, request.body)
<1>1. Fields(Params(request)) /\ Fields(MailParams(request.title, request.body))
  BY RequestFields
<1>2. Form(to_url(request)) = Params(request)
  BY <1>1, FormShows DEF to_url
<1>3. Form(mailto_url(address, request.title, request.body)) = MailParams(request.title, request.body)
  BY <1>1, FormShows DEF mailto_url
<1> QED
  BY <1>2, <1>3

-----------------------------------------------------------------------------
(* What a developer, or a form, reads.                                        *)

\* An issue has no stream, and a link that was opened is one of its two.
IssueInv ==
    route = "issue" =>
        /\ IsRequest(report)
        /\ pc \in {"build", "launch", "done"} /\ (pc # "done" => outcome = "none")
        /\ stream = [a \in Attempts |-> Unused]
        /\ pc = "launch" \/ outcome = "opened" =>
             bytes \in {to_url(report), mailto_url(Alias, report.title, report.body)}
        /\ pos = 0
        /\ mail # <<>> => items \in {Params(report), MailParams(report.title, report.body)}

\* It is so before the link is built.
LEMMA IssueInit == Init => IssueInv
<1> SUFFICES ASSUME Init, route = "issue" PROVE IssueInv
  BY DEF IssueInv
<1>1. PICK c \in Cases : route = c[1] /\ report = c[2]
  BY DEF Init
<1>2. IsRequest(report)
  BY <1>1, RequestAssumption DEF IsRequest
<1> QED
  BY <1>2 DEF Init, IssueInv

\* A step of an issue builds, opens or shows its link; no other action takes part.
LEMMA IssueNext == IssueInv /\ [Next]_vars => IssueInv'
<1> SUFFICES ASSUME IssueInv, [Next]_vars, route' = "issue" PROVE IssueInv'
  BY DEF IssueInv
<1>0. route' = route /\ report' = report
  BY DEF Next, Send, File, Build, StubSend, Seal, BuildLink, Launch, Jitter, Connect, Write,
         Read, ReadTooLate, Classify, Arrive, Answer, Pull, Show, ParseItem, Quiet, vars
<1>1. /\ IsRequest(report)
      /\ pc \in {"build", "launch", "done"} /\ (pc # "done" => outcome = "none")
      /\ stream = [a \in Attempts |-> Unused]
      /\ pc = "launch" \/ outcome = "opened" =>
           bytes \in {to_url(report), mailto_url(Alias, report.title, report.body)}
      /\ pos = 0
      /\ mail # <<>> => items \in {Params(report), MailParams(report.title, report.body)}
  BY <1>0 DEF IssueInv
<1>2. IsRequest(report)'
  BY <1>0, <1>1 DEF IsRequest
<1>3. \A a \in Attempts : stream[a].sent = 0 /\ stream[a].got = 0
  BY <1>1 DEF Unused
<1>4. CASE BuildLink
  BY <1>0, <1>1, <1>2, <1>4 DEF BuildLink, Finish, Quiet, developer, IssueInv
<1>5. CASE Launch
  BY <1>0, <1>1, <1>2, <1>5 DEF Launch, Finish, Quiet, developer, IssueInv
<1>6. CASE Show
  <2>1. items' = Form(bytes) /\ UNCHANGED <<pc, outcome, stream, bytes, pos>>
        /\ bytes \in {to_url(report), mailto_url(Alias, report.title, report.body)}
    BY <1>1, <1>6 DEF Show, sender
  <2>2. Form(bytes) \in {Params(report), MailParams(report.title, report.body)}
    BY <1>1, <2>1, LinksShow
  <2> QED
    BY <1>0, <1>1, <1>2, <2>1, <2>2 DEF IssueInv
<1>7. CASE UNCHANGED vars
  BY <1>0, <1>1, <1>2, <1>7 DEF vars, sender, developer, IssueInv
<1>8. ~Build /\ ~StubSend /\ ~Seal
  BY <1>0 DEF Build, StubSend, Seal
<1>9. ~Jitter /\ ~Connect /\ ~Write /\ ~Read /\ ~ReadTooLate /\ ~Classify /\ ~Answer
  BY <1>1 DEF Jitter, Connect, Write, Read, ReadTooLate, Classify, Answer
<1>10. ~Arrive /\ ~Pull /\ ~ParseItem
  BY <1>1, <1>3 DEF Arrive, Pull, ParseItem, Parsing
<1> QED
  BY <1>4, <1>5, <1>6, <1>7, <1>8, <1>9, <1>10 DEF Next, Send, File

\* A list that goes out is what the sender put there, and behind it at most a padding item.
LEMMA RestIsPadding ==
    ASSUME ReadInv, route # "issue", NEW list \in Lists
    PROVE  /\ IsSequence(Put) /\ Len(Put) \in Nat /\ IsSequence(list) /\ Len(list) \in Nat
           /\ Len(list) \in {Len(Put), Len(Put) + 1}
           /\ \A i \in 1 .. Len(list) :
                 list[i] = IF i <= Len(Put) THEN Put[i] ELSE PadItem(list[i].payload)
<1>1. OneCase /\ Put \in Lists
  BY DEF ReadInv, Lists
<1>2. IsSequence(Put) /\ \A n \in DOMAIN Put : IsItem(Put[n])
  BY <1>1, MadeOfItems
<1>3. Len(Put) \in Nat /\ DOMAIN Put = 1 .. Len(Put)
  BY <1>2, LenProperties DEF IsSequence
<1>4. CASE list = Put
  BY <1>2, <1>3, <1>4
<1>5. ASSUME NEW pad \in Pads, list = Append(Put, PadItem(pad))
      PROVE  /\ IsSequence(list) /\ Len(list) = Len(Put) + 1
             /\ \A i \in 1 .. Len(list) :
                   list[i] = IF i <= Len(Put) THEN Put[i] ELSE PadItem(list[i].payload)
  <2>1. IsItem(PadItem(pad))
    BY ReportAssumption, ItemsAreItems DEF IsPayload, PadItem
  <2>2. /\ IsSequence(list) /\ Len(list) = Len(Put) + 1
        /\ \A n \in 1 .. Len(Put) : list[n] = Put[n]
        /\ list[Len(Put) + 1] = PadItem(pad)
    BY <1>2, <1>5, <2>1, OneMoreItem
  <2>3. PadItem(PadItem(pad).payload) = PadItem(pad)
    BY DEF PadItem, Item
  <2>4. \A i \in 1 .. Len(list) : i \in 1 .. Len(Put) \/ i = Len(Put) + 1
    BY <1>3, <2>2
  <2>5. ~(Len(Put) + 1 <= Len(Put)) /\ \A i \in 1 .. Len(Put) : i <= Len(Put)
    BY <1>3
  <2> QED
    BY <2>2, <2>3, <2>4, <2>5
<1>6. list = Put \/ \E pad \in Pads : list = Append(Put, PadItem(pad))
  BY DEF Lists
<1>7. CASE \E pad \in Pads : list = Append(Put, PadItem(pad))
  <2>1. /\ IsSequence(list) /\ Len(list) = Len(Put) + 1
        /\ \A i \in 1 .. Len(list) :
              list[i] = IF i <= Len(Put) THEN Put[i] ELSE PadItem(list[i].payload)
    BY <1>5, <1>7
  <2> QED
    BY <1>2, <1>3, <2>1
<1> QED
  BY <1>4, <1>6, <1>7

\* What a developer has read of an envelope is the first items of it, and all of the whole.
LEMMA EnvelopeRead ==
    ASSUME ReadInv, route # "issue", mail # <<>>
    PROVE  /\ \A i \in DOMAIN items :
                 items[i] = IF i <= Len(Put) THEN Put[i] ELSE PadItem(items[i].payload)
           /\ Len(items) <= Len(Put) + 1
           /\ Whole => pos > 0
           /\ AllRead /\ Whole => Len(items) >= Len(Put)
<1>1. PICK list \in Lists : \E at :
         /\ Layout(bytes, list, at) /\ IsSequence(list) /\ Len(mail) \in Nat /\ Len(mail) <= Len(bytes) /\ Len(bytes) \in Nat
         /\ \/ pos = 0 /\ items = <<>> /\ Len(mail) < Len(bytes)
            \/ \E n \in 0 .. Len(list) :
                 /\ pos > 0 /\ items = SubSeq(list, 1, n)
                 /\ pos > Len(mail) /\ Len(mail) = Len(bytes) => n = Len(list)
  BY ReadSoFar
<1>2. /\ IsSequence(list) /\ Len(mail) \in Nat /\ Len(bytes) \in Nat
      /\ \/ pos = 0 /\ items = <<>> /\ Len(mail) < Len(bytes)
         \/ \E n \in 0 .. Len(list) :
              /\ pos > 0 /\ items = SubSeq(list, 1, n)
              /\ pos > Len(mail) /\ Len(mail) = Len(bytes) => n = Len(list)
  BY <1>1
<1>3. /\ Len(Put) \in Nat /\ Len(list) \in Nat
      /\ Len(list) \in {Len(Put), Len(Put) + 1}
      /\ \A i \in 1 .. Len(list) :
            list[i] = IF i <= Len(Put) THEN Put[i] ELSE PadItem(list[i].payload)
  BY RestIsPadding
<1>4. CASE pos = 0 /\ items = <<>> /\ Len(mail) < Len(bytes)
  <2>1. DOMAIN items = {} /\ Len(items) = 0 /\ ~Whole
    BY <1>2, <1>4 DEF Whole
  <2> QED
    BY <1>3, <2>1
<1>5. ASSUME NEW n \in 0 .. Len(list), pos > 0, items = SubSeq(list, 1, n),
             pos > Len(mail) /\ Len(mail) = Len(bytes) => n = Len(list)
      PROVE  /\ \A i \in DOMAIN items :
                   items[i] = IF i <= Len(Put) THEN Put[i] ELSE PadItem(items[i].payload)
             /\ Len(items) <= Len(Put) + 1
             /\ Whole => pos > 0
             /\ AllRead /\ Whole => Len(items) >= Len(Put)
  <2>1. /\ DOMAIN items = 1 .. n /\ Len(items) = n /\ n \in Nat /\ n <= Len(list)
        /\ \A i \in 1 .. n : items[i] = list[i]
    BY <1>2, <1>5, PartOfList
  <2>2. \A i \in 1 .. n : i \in 1 .. Len(list)
    BY <1>3, <2>1
  <2>3. \A i \in DOMAIN items :
           items[i] = IF i <= Len(Put) THEN Put[i] ELSE PadItem(items[i].payload)
    BY <1>3, <2>1, <2>2
  <2>4. AllRead /\ Whole => n = Len(list)
    BY <1>5 DEF AllRead, Whole
  <2> QED
    BY <1>3, <1>5, <2>1, <2>3, <2>4
<1> QED
  BY <1>2, <1>4, <1>5

\* A developer who pulls a report, the whole or what arrived of it, reads items that were
\* sent, in their order, and of the whole all of them, whatever bytes they hold; and a
\* form or a mail program shows the fields that the user wrote.
THEOREM ReadersReadWhatWasSent == Spec => []ReadsWhatWasSent
<1>1. Init => BoundInv /\ ReadInv /\ IssueInv
  BY BoundInit, ReadInit, IssueInit
<1>2. BoundInv /\ ReadInv /\ IssueInv /\ [Next]_vars => (BoundInv /\ ReadInv /\ IssueInv)'
  BY TimeNext, ReadNext, IssueNext
<1>3. ReadInv /\ IssueInv => ReadsWhatWasSent
  <2> SUFFICES ASSUME ReadInv, IssueInv PROVE ReadsWhatWasSent
    OBVIOUS
  <2>1. CASE route = "issue"
    BY <2>1 DEF IssueInv, ReadsWhatWasSent
  <2>2. CASE route # "issue"
    BY <2>2, EnvelopeRead DEF ReadsWhatWasSent
  <2> QED
    BY <2>1, <2>2
<1> QED
  BY <1>1, <1>2, <1>3, PTL DEF Spec

-----------------------------------------------------------------------------
(* The words of a text: where it is cut, and what is between the cuts.        *)

\* The elements of a set of numbers, in their order, as c.
Enum(C, n, c) ==
    /\ n \in Nat /\ c \in [0 .. n -> Nat] /\ \A i, j \in 0 .. n : i < j => c[i] < c[j]
    /\ C = {c[i] : i \in 0 .. n}

\* Zero and the numbers of a set up to a bound have an order.
LEMMA Enumerated ==
    ASSUME NEW A, NEW m \in Nat
    PROVE  \E n, c : Enum({0} \cup {i \in 1 .. m : i \in A}, n, c)
<1> DEFINE C(k) == {0} \cup {i \in 1 .. k : i \in A}
           P == {k \in Nat : \E n, c : Enum(C(k), n, c)}
<1>1. 0 \in P
  <2> DEFINE c == [i \in 0 .. 0 |-> 0]
  <2>1. c \in [0 .. 0 -> Nat] /\ (\A i, j \in 0 .. 0 : i < j => c[i] < c[j]) /\ C(0) = {c[i] : i \in 0 .. 0}
    OBVIOUS
  <2> HIDE DEF c, C
  <2>2. Enum(C(0), 0, c)
    BY <2>1 DEF Enum
  <2> QED
    BY <2>2
<1>2. ASSUME NEW k \in Nat, k \in P PROVE k + 1 \in P
  <2> DEFINE l == k + 1
  <2>0. l \in Nat /\ C(k) \subseteq 0 .. k
    OBVIOUS
  <2>1. PICK n, c : Enum(C(k), n, c)
    BY <1>2
  <2>2. CASE l \notin A
    <3>1. C(l) = C(k)
      <4>1. \A i : i \in 1 .. l <=> i \in 1 .. k \/ i = l
        OBVIOUS
      <4> HIDE DEF l
      <4> QED
        BY <2>2, <4>1
    <3> HIDE DEF C, l
    <3> QED
      BY <2>0, <2>1, <3>1 DEF l
  <2>3. CASE l \in A
    <3> DEFINE j == n + 1
               d == [i \in 0 .. j |-> IF i = j THEN l ELSE c[i]]
    <3>1. C(l) = C(k) \cup {l}
      <4>1. \A i : i \in 1 .. l <=> i \in 1 .. k \/ i = l
        OBVIOUS
      <4> HIDE DEF l
      <4> QED
        BY <2>3, <4>1
    <3>2. /\ n \in Nat /\ c \in [0 .. n -> Nat] /\ \A i, x \in 0 .. n : i < x => c[i] < c[x]
          /\ C(k) = {c[i] : i \in 0 .. n}
      BY <2>1 DEF Enum
    <3>3. \A i \in 0 .. n : c[i] < l /\ c[i] \in Nat
      <4> TAKE i \in 0 .. n
      <4>1. c[i] \in 0 .. k
        BY <2>0, <3>2
      <4> QED
        BY <4>1
    <3>4. j \in Nat /\ \A i : i \in 0 .. j <=> i \in 0 .. n \/ i = j
      BY <3>2
    <3>5. j \notin 0 .. n /\ \A i \in 0 .. n : i < j /\ ~(j < i)
      BY <3>2
    <3>6. ~(j < j)
      BY <3>4
    <3> HIDE DEF j, C, l
    <3>7. d \in [0 .. j -> Nat]
      BY <2>0, <3>2, <3>4
    <3>8. \A i, x \in 0 .. j : i < x => d[i] < d[x]
      BY <3>2, <3>3, <3>4, <3>5, <3>6
    <3>9. C(l) = {d[i] : i \in 0 .. j}
      <4>1. d[j] = l /\ \A i \in 0 .. n : d[i] = c[i]
        BY <3>4, <3>5
      <4>2. {d[i] : i \in 0 .. j} = {d[i] : i \in 0 .. n} \cup {d[j]}
        BY <3>4
      <4> HIDE DEF d
      <4> QED
        BY <3>1, <3>2, <4>1, <4>2
    <3> HIDE DEF d
    <3>10. Enum(C(l), j, d)
      BY <3>4, <3>7, <3>8, <3>9 DEF Enum
    <3> QED
      BY <2>0, <3>10 DEF l
  <2> QED
    BY <2>2, <2>3
<1> HIDE DEF P
<1>3. m \in P
  BY <1>1, <1>2, Induction
<1> QED
  BY <1>3 DEF P

\* Any sequence can be cut.
LEMMA CutsExist ==
    ASSUME NEW s, IsSequence(s), NEW class
    PROVE  \E n, c : CutAt(s, class, n, c)
<1> DEFINE m == Len(s) + 1
           A == {m} \cup {i \in DOMAIN s : s[i] \in class}
           C == {0, m} \cup {i \in DOMAIN s : s[i] \in class}
<1>1. Len(s) \in Nat /\ DOMAIN s = 1 .. Len(s)
  BY LenProperties DEF IsSequence
<1>2. m \in Nat /\ m # 0 /\ {0} \cup {i \in 1 .. m : i \in A} = C
  BY <1>1
<1> HIDE DEF A
<1>3. PICK n, c : Enum({0} \cup {i \in 1 .. m : i \in A}, n, c)
  BY <1>2, Enumerated
<1>4. 0 \in C /\ m \in C
  OBVIOUS
<1>5. Enum(C, n, c)
  BY <1>2, <1>3
<1> HIDE DEF C, m
<1>6. n # 0
  <2> SUFFICES ASSUME n = 0 PROVE FALSE
    OBVIOUS
  <2>1. \A x \in C : x = c[0]
    <3>1. 0 .. 0 = {0}
      OBVIOUS
    <3> QED
      BY <1>5, <3>1 DEF Enum
  <2> QED
    BY <1>2, <1>4, <2>1
<1> QED
  BY <1>1, <1>5, <1>6 DEF Enum, CutAt, C, m

\* The parts between the cuts, none of which holds a glyph of the class.
IsParts(s, class, parts) ==
    /\ IsSequence(parts) /\ parts # <<>>
    /\ \A k \in DOMAIN parts : /\ IsSequence(parts[k]) /\ Elems(parts[k]) \subseteq Elems(s)
                               /\ \A i \in DOMAIN parts[k] : parts[k][i] \notin class

\* A part of a sequence is one.
LEMMA SubIs ==
    ASSUME NEW s, IsSequence(s), NEW a \in Nat, NEW b \in Int, a >= 1, b <= Len(s), b >= a - 1
    PROVE  LET u == SubSeq(s, a, b) IN
           /\ IsSequence(u) /\ Elems(u) \subseteq Elems(s) /\ Len(u) = b - a + 1 /\ DOMAIN u = 1 .. (b - a + 1)
           /\ \A i \in 1 .. (b - a + 1) : a + i - 1 \in a .. b /\ u[i] = s[a + i - 1]
<1> DEFINE u == SubSeq(s, a, b)
           S == Elems(s)
<1>1. s \in Seq(S) /\ Len(s) \in Nat /\ DOMAIN s = 1 .. Len(s) /\ \A i \in 1 .. Len(s) : s[i] \in S
  BY LenProperties, ElementOfSeq DEF IsSequence
<1>2. \A i \in a .. b : s[i] \in S
  BY <1>1
<1> HIDE DEF S
<1>3. u \in Seq(S) /\ Len(u) = (IF a <= b THEN b - a + 1 ELSE 0) /\ \A i \in 1 .. b - a + 1 : u[i] = s[a + i - 1]
  BY <1>2, SubSeqProperties
<1> HIDE DEF u
<1>4. Len(u) = b - a + 1
  BY <1>3
<1>5. DOMAIN u = 1 .. (b - a + 1) /\ IsSequence(u)
  BY <1>3, <1>4, LenProperties, IsSequenceOf
<1>6. \A i \in 1 .. (b - a + 1) : a + i - 1 \in a .. b
  OBVIOUS
<1>7. Elems(u) \subseteq S
  BY <1>2, <1>3, <1>5, <1>6 DEF Elems
<1> QED
  BY <1>3, <1>4, <1>5, <1>6, <1>7 DEF u, S

LEMMA SplitParts ==
    ASSUME NEW s, IsSequence(s), NEW class
    PROVE  IsParts(s, class, Split(s, class))
<1>1. PICK n, c : CutAt(s, class, n, c)
  BY CutsExist
<1> DEFINE P == Split(s, class)
           C == {0, Len(s) + 1} \cup {i \in DOMAIN s : s[i] \in class}
<1>2. P = [k \in 1 .. n |-> SubSeq(s, c[k - 1] + 1, c[k] - 1)]
  BY <1>1, SplitAt
<1>3. /\ Len(s) \in Nat /\ n \in Nat \ {0} /\ c \in [0 .. n -> Nat]
      /\ \A i, j \in 0 .. n : i < j => c[i] < c[j]
      /\ C = {c[i] : i \in 0 .. n}
  BY <1>1 DEF CutAt
<1>4. DOMAIN s = 1 .. Len(s)
  BY LenProperties DEF IsSequence
<1>5. ASSUME NEW k \in 1 .. n
      PROVE  /\ IsSequence(P[k]) /\ Elems(P[k]) \subseteq Elems(s)
             /\ \A i \in DOMAIN P[k] : P[k][i] \notin class
  <2> DEFINE a == c[k - 1] + 1
             b == c[k] - 1
  <2>1. /\ k - 1 \in 0 .. n /\ k \in 0 .. n /\ k - 1 < k
    BY <1>3
  <2>2. c[k - 1] < c[k] /\ c[k] \in Nat /\ c[k - 1] \in Nat /\ c[k] \in C
    BY <1>3, <2>1
  <2>3. c[k] <= Len(s) + 1
    <3>1. \A x \in C : x <= Len(s) + 1
      BY <1>3, <1>4
    <3> HIDE DEF C
    <3> QED
      BY <2>2, <3>1
  <2>4. a \in Nat /\ b \in Int /\ a >= 1 /\ b <= Len(s) /\ b >= a - 1
    BY <1>3, <2>2, <2>3
  <2>5. P[k] = SubSeq(s, a, b)
    BY <1>2
  <2>6. ASSUME NEW x \in a .. b PROVE s[x] \notin class
    <3> SUFFICES ASSUME s[x] \in class PROVE FALSE
      OBVIOUS
    <3>1. x \in DOMAIN s
      <4>1. Len(s) \in Nat
        BY <1>3
      <4>2. x \in 1 .. Len(s)
        <5> HIDE DEF a, b
        <5> QED
          BY <2>4, <4>1
      <4> QED
        BY <1>4, <4>2
    <3>2. x \in C
      BY <3>1
    <3>3. PICK i \in 0 .. n : x = c[i]
      BY <1>3, <3>2
    <3>4. c[k - 1] < c[i] /\ c[i] < c[k]
      BY <2>2, <3>3
    <3>5. c[i] \in Nat /\ ~(i < k - 1) /\ ~(k < i) /\ i # k /\ i # k - 1
      <4>1. c[i] \in Nat
        BY <1>3
      <4>2. i < k - 1 => c[i] < c[k - 1]
        BY <1>3, <2>1
      <4>3. k < i => c[k] < c[i]
        BY <1>3, <2>1
      <4> QED
        BY <2>2, <3>4, <4>1, <4>2, <4>3
    <3> QED
      BY <3>5
  <2> HIDE DEF P, a, b
  <2>7. LET u == SubSeq(s, a, b) IN
        /\ IsSequence(u) /\ Elems(u) \subseteq Elems(s) /\ DOMAIN u = 1 .. (b - a + 1)
        /\ \A i \in 1 .. (b - a + 1) : a + i - 1 \in a .. b /\ u[i] = s[a + i - 1]
    BY <2>4, SubIs
  <2>8. \A i \in DOMAIN P[k] : P[k][i] \notin class
    BY <2>5, <2>6, <2>7
  <2> QED
    BY <2>5, <2>7, <2>8
<1> HIDE DEF P
<1>6. DOMAIN P = 1 .. n /\ P = [k \in 1 .. n |-> P[k]]
  BY <1>2
<1>7. P \in Seq(Elems(P))
  <2>1. P \in [1 .. n -> Elems(P)]
    BY <1>6 DEF Elems
  <2> QED
    BY <1>3, <2>1, SeqDef
<1>8. P # <<>>
  <2>1. 1 \in DOMAIN P
    BY <1>3, <1>6
  <2> QED
    BY <2>1
<1> QED
  BY <1>5, <1>6, <1>7, <1>8 DEF IsParts, IsSequence, P

-----------------------------------------------------------------------------
(* What trimming leaves, and where a cut falls.                               *)

\* Without a glyph of the class nothing is cut.
LEMMA NotCut ==
    ASSUME NEW s, IsSequence(s), NEW class, \A i \in DOMAIN s : s[i] \notin class
    PROVE  Split(s, class) = [k \in 1 .. 1 |-> s] /\ First(s, class) = s
<1> DEFINE c == [i \in 0 .. 1 |-> IF i = 0 THEN 0 ELSE Len(s) + 1]
<1>1. Len(s) \in Nat /\ DOMAIN s = 1 .. Len(s) /\ s \in Seq(Elems(s))
  BY LenProperties DEF IsSequence
<1>2. CutAt(s, class, 1, c)
  <2>1. \A i : i \in 0 .. 1 <=> i = 0 \/ i = 1
    OBVIOUS
  <2>2. c[0] = 0 /\ c[1] = Len(s) + 1 /\ c \in [0 .. 1 -> Nat]
    BY <1>1
  <2>3. \A i, j \in 0 .. 1 : i < j => c[i] < c[j]
    <3> TAKE i, j \in 0 .. 1
    <3>1. CASE i = 0 /\ j = 1
      BY <1>1, <2>2, <3>1
    <3>2. CASE ~(i = 0 /\ j = 1)
      BY <2>1, <3>2
    <3> QED
      BY <3>1, <3>2
  <2>4. {c[i] : i \in 0 .. 1} = {0, Len(s) + 1}
    <3> HIDE DEF c
    <3> QED
      BY <2>1, <2>2
  <2>5. {i \in DOMAIN s : s[i] \in class} = {}
    OBVIOUS
  <2> HIDE DEF c
  <2> QED
    BY <1>1, <2>2, <2>3, <2>4, <2>5 DEF CutAt
<1>3. Split(s, class) = [k \in 1 .. 1 |-> SubSeq(s, c[k - 1] + 1, c[k] - 1)]
  <2> HIDE DEF c
  <2> DEFINE n == 1
  <2>1. CutAt(s, class, n, c)
    BY <1>2
  <2> HIDE DEF n
  <2>2. Split(s, class) = [k \in 1 .. n |-> SubSeq(s, c[k - 1] + 1, c[k] - 1)]
    BY <2>1, SplitAt
  <2> QED
    BY <2>2 DEF n
<1>4. \A k \in 1 .. 1 : SubSeq(s, c[k - 1] + 1, c[k] - 1) = s
  <2> TAKE k \in 1 .. 1
  <2>1. c[k - 1] + 1 = 1 /\ c[k] - 1 = Len(s)
    BY <1>1
  <2> HIDE DEF c
  <2> QED
    BY <1>1, <2>1, SubSeqFull
<1>5. Split(s, class) = [k \in 1 .. 1 |-> s]
  BY <1>3, <1>4
<1> QED
  BY <1>5 DEF First

\* The first part in front of a separator, and the second one behind it.
LEMMA TwoParts ==
    ASSUME NEW s, IsSequence(s), NEW t, IsSequence(t), NEW x,
           \A i \in DOMAIN s : s[i] # x, \A i \in DOMAIN t : t[i] # x
    PROVE  Split((s \o <<x>>) \o t, {x}) = [k \in 1 .. 2 |-> IF k = 1 THEN s ELSE t]
<1> DEFINE S == Elems(s) \cup Elems(t) \cup {x}
           h == s \o <<x>>
           u == h \o t
           a == Len(s)
           b == Len(t)
<1>1. /\ s \in Seq(S) /\ t \in Seq(S) /\ <<x>> \in Seq(S) /\ a \in Nat /\ b \in Nat
      /\ DOMAIN s = 1 .. a /\ DOMAIN t = 1 .. b /\ Len(<<x>>) = 1
  BY SeqMonotonic, LenProperties DEF IsSequence
<1> HIDE DEF S
<1>2. /\ h \in Seq(S) /\ Len(h) = a + 1
      /\ \A i \in 1 .. a + 1 : h[i] = IF i <= a THEN s[i] ELSE x
  <2> DEFINE o == <<x>>
  <2>1. o \in Seq(S) /\ Len(o) = 1 /\ o[1] = x
    BY <1>1
  <2> HIDE DEF o
  <2>2. /\ s \o o \in Seq(S) /\ Len(s \o o) = Len(s) + Len(o)
        /\ \A i \in 1 .. Len(s) + Len(o) : (s \o o)[i] = IF i <= Len(s) THEN s[i] ELSE o[i - Len(s)]
    <3>1. s \in Seq(S) /\ o \in Seq(S)
      BY <1>1, <2>1
    <3> HIDE DEF a, b
    <3> QED
      BY <3>1, ConcatProperties
  <2>3. \A i \in 1 .. a + 1 : ~(i <= a) => i - a = 1
    BY <1>1
  <2> QED
    BY <2>1, <2>2, <2>3 DEF o
<1> HIDE DEF h
<1>3. /\ u \in Seq(S) /\ Len(u) = a + 1 + b /\ DOMAIN u = 1 .. (a + 1 + b)
      /\ \A i \in 1 .. a + 1 + b : u[i] = IF i <= a + 1 THEN h[i] ELSE t[i - (a + 1)]
  <2>1. /\ h \o t \in Seq(S) /\ Len(h \o t) = Len(h) + Len(t)
        /\ \A i \in 1 .. Len(h) + Len(t) : (h \o t)[i] = IF i <= Len(h) THEN h[i] ELSE t[i - Len(h)]
    <3> HIDE DEF S, h, a, b
    <3>1. h \in Seq(S) /\ t \in Seq(S)
      BY <1>1, <1>2
    <3> QED
      BY <3>1, ConcatProperties
  <2> QED
    BY <1>2, <2>1, LenProperties
<1> HIDE DEF u, a, b
<1>4. \A i \in 1 .. a : u[i] = s[i]
  <2> TAKE i \in 1 .. a
  <2>1. i \in 1 .. a + 1 + b /\ i \in 1 .. a + 1 /\ i <= a + 1 /\ i <= a
    BY <1>1
  <2> QED
    BY <1>2, <1>3, <2>1
<1>5. u[a + 1] = x
  BY <1>1, <1>2, <1>3
<1>6. \A i \in 1 .. b : u[a + 1 + i] = t[i]
  <2> TAKE i \in 1 .. b
  <2>1. a + 1 + i \in 1 .. a + 1 + b /\ ~(a + 1 + i <= a + 1) /\ (a + 1 + i) - (a + 1) = i
    BY <1>1
  <2> QED
    BY <1>3, <2>1
<1> DEFINE c == [i \in 0 .. 2 |-> IF i = 0 THEN 0 ELSE IF i = 1 THEN a + 1 ELSE a + b + 2]
           class == {x}
<1>7. /\ c[0] = 0 /\ c[1] = a + 1 /\ c[2] = a + b + 2 /\ c \in [0 .. 2 -> Nat]
      /\ \A i : i \in 0 .. 2 <=> i = 0 \/ i = 1 \/ i = 2
  BY <1>1
<1>8. {0, Len(u) + 1} \cup {i \in DOMAIN u : u[i] \in class} = {c[i] : i \in 0 .. 2}
  <2>1. {i \in DOMAIN u : u[i] \in class} = {a + 1}
    <3>1. a + 1 \in DOMAIN u /\ u[a + 1] \in class
      BY <1>1, <1>3, <1>5
    <3>2. ASSUME NEW i \in DOMAIN u, u[i] = x PROVE i = a + 1
      <4>1. CASE i <= a
        BY <1>1, <1>3, <1>4, <3>2, <4>1 DEF a
      <4>2. CASE i > a + 1
        <5>1. i - (a + 1) \in 1 .. b /\ a + 1 + (i - (a + 1)) = i
          <6> DEFINE j == i - (a + 1)
          <6>1. i \in 1 .. (a + 1 + b)
            BY <1>3
          <6>2. j \in 1 .. b /\ a + 1 + j = i
            BY <1>1, <4>2, <6>1
          <6> QED
            BY <6>2
        <5>2. u[i] = t[i - (a + 1)]
          BY <1>6, <5>1
        <5> QED
          BY <1>1, <3>2, <5>1, <5>2
      <4> QED
        BY <1>1, <1>3, <4>1, <4>2
    <3> QED
      BY <3>1, <3>2
  <2>2. {c[i] : i \in 0 .. 2} = {c[0], c[1], c[2]}
    <3> HIDE DEF c
    <3> QED
      BY <1>7
  <2>3. Len(u) + 1 = a + b + 2
    BY <1>1, <1>3
  <2> HIDE DEF c, class
  <2> QED
    BY <1>7, <2>1, <2>2, <2>3
<1>9. \A i, j \in 0 .. 2 : i < j => c[i] < c[j]
  <2> TAKE i, j \in 0 .. 2
  <2>1. 0 < a + 1 /\ a + 1 < a + b + 2 /\ 0 < a + b + 2
    BY <1>1
  <2> HIDE DEF c
  <2>2. i < j => (i = 0 /\ j = 1) \/ (i = 0 /\ j = 2) \/ (i = 1 /\ j = 2)
    BY <1>7
  <2> QED
    BY <1>7, <2>1, <2>2
<1>10. Split(u, class) = [k \in 1 .. 2 |-> SubSeq(u, c[k - 1] + 1, c[k] - 1)]
  <2> HIDE DEF c, class
  <2>1. Len(u) \in Nat /\ 2 \in Nat \ {0}
    BY <1>1, <1>3
  <2>2. CutAt(u, class, 2, c)
    BY <1>7, <1>8, <1>9, <2>1 DEF CutAt
  <2> DEFINE n == 2
  <2>3. CutAt(u, class, n, c)
    BY <2>2
  <2> HIDE DEF n
  <2>4. Split(u, class) = [k \in 1 .. n |-> SubSeq(u, c[k - 1] + 1, c[k] - 1)]
    BY <2>3, SplitAt
  <2> QED
    BY <2>4 DEF n
<1>11. SubSeq(u, c[0] + 1, c[1] - 1) = s
  <2> DEFINE e == 1
  <2>1. e \in Nat /\ \A i \in 1 .. Len(s) : u[e + (i - 1)] = s[i]
    BY <1>1, <1>4 DEF a
  <2>2. c[0] + 1 = e /\ c[1] - 1 = e + (Len(s) - 1)
    BY <1>1, <1>7 DEF a
  <2> HIDE DEF e, c
  <2>3. SubSeq(u, e, e + (Len(s) - 1)) = s
    BY <2>1, Slice
  <2> QED
    BY <2>2, <2>3
<1>12. SubSeq(u, c[1] + 1, c[2] - 1) = t
  <2> DEFINE e == a + 2
  <2>1. e \in Nat /\ \A i \in 1 .. Len(t) : u[e + (i - 1)] = t[i]
    <3>1. \A i \in 1 .. Len(t) : e + (i - 1) = a + 1 + i
      BY <1>1
    <3> QED
      BY <1>1, <1>6, <3>1 DEF b
  <2>2. c[1] + 1 = e /\ c[2] - 1 = e + (Len(t) - 1)
    BY <1>1, <1>7 DEF b
  <2> HIDE DEF e, c
  <2>3. SubSeq(u, e, e + (Len(t) - 1)) = t
    BY <2>1, Slice
  <2> QED
    BY <2>2, <2>3
<1> HIDE DEF c
<1>13. \A k \in 1 .. 2 : SubSeq(u, c[k - 1] + 1, c[k] - 1) = IF k = 1 THEN s ELSE t
  <2> TAKE k \in 1 .. 2
  <2>1. k = 1 \/ k = 2
    OBVIOUS
  <2>2. CASE k = 1
    <3>1. k - 1 = 0
      BY <2>2
    <3> QED
      BY <1>11, <2>2, <3>1
  <2>3. CASE k = 2
    <3>1. k - 1 = 1 /\ k # 1
      BY <2>3
    <3> QED
      BY <1>12, <2>3, <3>1
  <2> QED
    BY <2>1, <2>2, <2>3
<1>14. Split(u, class) = [k \in 1 .. 2 |-> IF k = 1 THEN s ELSE t]
  BY <1>10, <1>13
<1> QED
  BY <1>14 DEF u, h, class

\* The first place of a glyph that is none of a class is in the sequence; so is the last.
LEMMA FirstPlace ==
    ASSUME NEW N \in Nat, NEW T, T \subseteq 1 .. N, T # {}
    PROVE  /\ \E i \in T : \A j \in T : i <= j
           /\ \E i \in T : \A j \in T : j <= i
<1> DEFINE R == OpToRel(<, Nat)
           U == {N - i : i \in T}
<1>1. \A V : V \subseteq Nat /\ V # {} => \E i \in V : \A j \in V : i <= j
  <2> TAKE V
  <2> SUFFICES ASSUME V \subseteq Nat, V # {} PROVE \E i \in V : \A j \in V : i <= j
    OBVIOUS
  <2>1. IsWellFoundedOn(R, Nat)
    BY NatLessThanWellFounded
  <2>2. PICK k \in V : \A j \in V : ~(<<j, k>> \in R)
    <3> HIDE DEF R
    <3> QED
      BY <2>1, WFMin
  <2>3. \A j \in V : ~(j < k)
    BY <2>2 DEF OpToRel
  <2> QED
    BY <2>3
<1>2. T \subseteq Nat /\ U \subseteq Nat /\ U # {}
  <2>1. T \subseteq Nat
    OBVIOUS
  <2>2. \A i \in 1 .. N : N - i \in Nat
    OBVIOUS
  <2>3. U \subseteq Nat
    BY <2>2
  <2>4. U # {}
    OBVIOUS
  <2> QED
    BY <2>1, <2>3, <2>4
<1>3. PICK i \in U : \A j \in U : i <= j
  BY <1>1, <1>2
<1>4. PICK k \in T : i = N - k
  OBVIOUS
<1>5. \A j \in T : j <= k
  <2> TAKE j \in T
  <2>1. N - k <= N - j
    BY <1>3, <1>4
  <2>2. k \in Nat /\ j \in Nat
    OBVIOUS
  <2> QED
    BY <2>1, <2>2
<1> QED
  BY <1>1, <1>2, <1>5

\* The first and the last number of an interval.
LEMMA EndsOf ==
    ASSUME NEW N \in Nat, NEW m \in 1 .. N, NEW l \in 1 .. N, \A j \in 1 .. N : m <= j /\ j <= l
    PROVE  m = 1 /\ l = N
<1>1. 1 \in 1 .. N /\ N \in 1 .. N
  OBVIOUS
<1> QED
  BY <1>1

\* A sequence without what was trimmed is one of the same glyphs.
LEMMA Trims ==
    ASSUME NEW s, IsSequence(s), NEW class
    PROVE  /\ IsSequence(Trim(s)) /\ Elems(Trim(s)) \subseteq Elems(s)
           /\ IsSequence(TrimLeft(s, class)) /\ Elems(TrimLeft(s, class)) \subseteq Elems(s)
           /\ (\A i \in DOMAIN s : s[i] # " ") => Trim(s) = s
           /\ s # <<>> /\ s[1] \notin class => TrimLeft(s, class) = s
<1> DEFINE N == Len(s)
<1>1. N \in Nat /\ DOMAIN s = 1 .. N /\ s \in Seq(Elems(s))
  BY LenProperties DEF IsSequence
<1>0. IsSequence(<<>>) /\ Elems(<<>>) = {}
  BY DEF IsSequence, Elems
<1>2. /\ IsSequence(TrimLeft(s, class)) /\ Elems(TrimLeft(s, class)) \subseteq Elems(s)
      /\ s # <<>> /\ s[1] \notin class => TrimLeft(s, class) = s
  <2> DEFINE rest == {i \in DOMAIN s : s[i] \notin class}
             m == CHOOSE i \in rest : \A j \in rest : i <= j
  <2>1. TrimLeft(s, class) = IF rest = {} THEN <<>> ELSE SubSeq(s, m, Len(s))
    BY DEF TrimLeft
  <2>2. rest \subseteq 1 .. N
    BY <1>1
  <2>3. CASE rest = {}
    <3>1. s # <<>> => 1 \in DOMAIN s
      BY <1>1, EmptySeq
    <3> QED
      BY <1>0, <2>1, <2>3, <3>1
  <2>4. CASE rest # {}
    <3>1. \E i \in rest : \A j \in rest : i <= j
      <4> HIDE DEF rest
      <4> QED
        BY <1>1, <2>2, <2>4, FirstPlace
    <3> HIDE DEF rest
    <3>2. m \in rest /\ \A j \in rest : m <= j
      BY <3>1
    <3> HIDE DEF m
    <3>3. m \in Nat /\ N \in Int /\ m >= 1 /\ N <= Len(s) /\ N >= m - 1
      BY <1>1, <2>2, <3>2
    <3>4. IsSequence(SubSeq(s, m, N)) /\ Elems(SubSeq(s, m, N)) \subseteq Elems(s)
      BY <3>3, SubIs
    <3>5. s # <<>> /\ s[1] \notin class => m = 1
      <4> SUFFICES ASSUME s # <<>>, s[1] \notin class PROVE m = 1
        OBVIOUS
      <4>1. 1 \in rest
        BY <1>1, EmptySeq DEF rest
      <4> QED
        BY <3>2, <3>3, <4>1
    <3>6. SubSeq(s, 1, N) = s
      BY <1>1, SubSeqFull
    <3> QED
      BY <2>1, <2>4, <3>4, <3>5, <3>6
  <2> QED
    BY <2>3, <2>4
<1>3. /\ IsSequence(Trim(s)) /\ Elems(Trim(s)) \subseteq Elems(s)
      /\ (\A i \in DOMAIN s : s[i] # " ") => Trim(s) = s
  <2> DEFINE black == {i \in DOMAIN s : s[i] # " "}
             m == CHOOSE i \in black : \A j \in black : i <= j
             l == CHOOSE i \in black : \A j \in black : j <= i
  <2>1. Trim(s) = IF black = {} THEN <<>> ELSE SubSeq(s, m, l)
    BY DEF Trim
  <2>2. black \subseteq 1 .. N
    BY <1>1
  <2>3. CASE black = {}
    <3>1. (\A i \in DOMAIN s : s[i] # " ") => 1 .. N = {}
      BY <1>1, <2>3
    <3>2. 1 .. N = {} => s = <<>>
      <4> SUFFICES ASSUME 1 .. N = {} PROVE s = <<>>
        OBVIOUS
      <4>1. ~(1 \in 1 .. N)
        OBVIOUS
      <4>2. N = 0
        BY <1>1, <4>1
      <4> QED
        BY <1>1, <4>2, EmptySeq
    <3>3. Trim(s) = <<>>
      BY <2>1, <2>3
    <3> HIDE DEF N, black
    <3> QED
      BY <1>0, <3>1, <3>2, <3>3
  <2>4. CASE black # {}
    <3>1. /\ \E i \in black : \A j \in black : i <= j
          /\ \E i \in black : \A j \in black : j <= i
      <4> HIDE DEF black
      <4> QED
        BY <1>1, <2>2, <2>4, FirstPlace
    <3> HIDE DEF black
    <3>2. m \in black /\ (\A j \in black : m <= j) /\ l \in black /\ \A j \in black : j <= l
      BY <3>1
    <3> HIDE DEF m, l
    <3>3. m \in Nat /\ l \in Int /\ m >= 1 /\ l <= Len(s) /\ l >= m - 1
      BY <1>1, <2>2, <3>2
    <3>4. IsSequence(SubSeq(s, m, l)) /\ Elems(SubSeq(s, m, l)) \subseteq Elems(s)
      BY <3>3, SubIs
    <3>5. (\A i \in DOMAIN s : s[i] # " ") => m = 1 /\ l = N
      <4> SUFFICES ASSUME \A i \in DOMAIN s : s[i] # " " PROVE m = 1 /\ l = N
        OBVIOUS
      <4>1. N \in Nat /\ m \in 1 .. N /\ l \in 1 .. N
        BY <1>1, <2>2, <3>2
      <4>2. black = 1 .. N
        BY <1>1 DEF black
      <4>3. \A j \in 1 .. N : m <= j /\ j <= l
        BY <3>2, <4>2
      <4> HIDE DEF N
      <4> QED
        BY <4>1, <4>3, EndsOf
    <3>6. SubSeq(s, 1, N) = s
      BY <1>1, SubSeqFull
    <3> QED
      BY <2>1, <2>4, <3>4, <3>5, <3>6
  <2> QED
    BY <2>3, <2>4
<1> QED
  BY <1>2, <1>3

-----------------------------------------------------------------------------
(* A text spread out of its words, and cut again.                             *)

\* A flattened sequence, written in rounds f: every part in its place, and nothing else.
Flat(f, N, F, S, q) ==
    /\ q = f[N] /\ q \in Seq(S) /\ Len(q) \in Nat
    /\ Grows(f, N, <<>>, F, S)
    /\ \A j \in 1 .. Len(q) : \E n \in 1 .. N : \E i \in 1 .. Len(F[n]) : j = Len(f[n - 1]) + i

\* FlattenSeq makes one.
LEMMA FlatIs ==
    ASSUME NEW S, NEW N \in Nat, NEW F \in [1 .. N -> Seq(S)]
    PROVE  \E f : Flat(f, N, F, S, Ext!FlattenSeq(F))
<1> DEFINE H == <<>>
<1>1. PICK f : Appends(f, N, H, F) /\ Ext!FlattenSeq(F) = f[N]
  BY Flattened
<1>2. H \in Seq(S) /\ 1 .. Len(H) = {}
  OBVIOUS
<1> HIDE DEF H
<1>3. Grows(f, N, H, F, S)
  BY <1>1, <1>2, AppendsPrefix
<1>4. Covered(f, N, H, F)
  BY <1>3, AppendsCover
<1>5. f[N] \in Seq(S) /\ Len(f[N]) \in Nat
  <2>1. N \in 0 .. N
    OBVIOUS
  <2> QED
    BY <1>3, <2>1 DEF Grows
<1>6. Flat(f, N, F, S, f[N])
  BY <1>2, <1>3, <1>4, <1>5 DEF Flat, Covered, H
<1> QED
  BY <1>1, <1>6

\* How words lie in a text: each behind the one before, with a separator in between.
Spread(words, x, f, q) ==
    /\ IsSequence(q) /\ Len(words) \in Nat /\ Len(words) >= 1 /\ DOMAIN words = 1 .. Len(words)
    /\ Len(f[0]) = 0 /\ Len(f[Len(words)]) = Len(q)
    /\ \A n \in 0 .. Len(words) : Len(f[n]) \in Nat /\ Len(f[n]) <= Len(q)
    /\ \A n \in 1 .. Len(words) :
          /\ IsSequence(words[n]) /\ \A i \in DOMAIN words[n] : words[n][i] # x
          /\ Len(f[n]) = Len(f[n - 1]) + (Lead(n) + Len(words[n]))
          /\ \A m \in 1 .. n : Len(f[m]) <= Len(f[n])
          /\ n # 1 => q[Len(f[n - 1]) + 1] = x
          /\ \A i \in 1 .. Len(words[n]) : q[Len(f[n - 1]) + (Lead(n) + i)] = words[n][i]
    /\ \A j \in 1 .. Len(q) : \E n \in 1 .. Len(words) :
          \/ n # 1 /\ j = Len(f[n - 1]) + 1
          \/ \E i \in 1 .. Len(words[n]) : j = Len(f[n - 1]) + (Lead(n) + i)

\* Words with a separator between them.
Between(words, x) == [i \in DOMAIN words |-> (IF i = 1 THEN <<>> ELSE <<x>>) \o words[i]]

\* One word behind its separator.
AfterSep(w, x, i) == (IF i = 1 THEN <<>> ELSE <<x>>) \o w

\* p is w with x in front of it, or, in the first place, w alone.
LiesBehind(S, p, w, x, i) ==
    /\ p \in Seq(S) /\ Len(p) = Lead(i) + Len(w) /\ Len(w) \in Nat /\ Lead(i) \in {0, 1}
    /\ i # 1 => p[1] = x /\ Lead(i) = 1
    /\ \A j \in 1 .. Len(w) : p[Lead(i) + j] = w[j]

\* It lies there as it is.
LEMMA OneWord ==
    ASSUME NEW S, NEW w \in Seq(S), NEW x \in S, NEW i \in Nat, NEW p, p = AfterSep(w, x, i)
    PROVE  LiesBehind(S, p, w, x, i)
<1> DEFINE sep == IF i = 1 THEN <<>> ELSE <<x>>
           d == Lead(i)
<1>1. sep \in Seq(S) /\ Len(sep) = d /\ d \in {0, 1} /\ (i # 1 => sep[1] = x /\ d = 1)
  BY DEF Lead
<1>2. p = sep \o w /\ Len(w) \in Nat
  BY LenProperties DEF AfterSep
<1> HIDE DEF sep, d
<1>3. /\ sep \o w \in Seq(S) /\ Len(sep \o w) = Len(sep) + Len(w)
      /\ \A j \in 1 .. Len(sep) + Len(w) : (sep \o w)[j] = IF j <= Len(sep) THEN sep[j] ELSE w[j - Len(sep)]
  BY <1>1, ConcatProperties
<1>4. /\ p \in Seq(S) /\ Len(p) = d + Len(w)
      /\ \A j \in 1 .. d + Len(w) : p[j] = IF j <= d THEN sep[j] ELSE w[j - d]
  BY <1>1, <1>2, <1>3
<1>5. i # 1 => p[1] = x
  <2>1. i # 1 => 1 \in 1 .. d + Len(w) /\ 1 <= d
    BY <1>1, <1>2
  <2> QED
    BY <1>1, <1>4, <2>1
<1>6. ASSUME NEW j \in 1 .. Len(w) PROVE p[d + j] = w[j]
  <2>1. d + j \in 1 .. d + Len(w) /\ ~(d + j <= d) /\ (d + j) - d = j
    BY <1>1, <1>2
  <2> QED
    BY <1>4, <2>1
<1> QED
  BY <1>1, <1>2, <1>4, <1>5, <1>6 DEF d, LiesBehind

\* Flattened, they lie there like that.
LEMMA SpreadOut ==
    ASSUME NEW words, IsSequence(words), words # <<>>, NEW x,
           \A n \in DOMAIN words : IsSequence(words[n]) /\ \A i \in DOMAIN words[n] : words[n][i] # x
    PROVE  \E f : Spread(words, x, f, Ext!FlattenSeq(Between(words, x)))
<1> DEFINE N == Len(words)
           F == Between(words, x)
           W == UNION {Elems(words[n]) : n \in DOMAIN words}
           S == W \cup {x}
           q == Ext!FlattenSeq(F)
<1>1. N \in Nat /\ DOMAIN words = 1 .. N /\ N >= 1
  BY LenProperties, EmptySeq DEF IsSequence
<1>2. \A n \in 1 .. N : words[n] \in Seq(S)
  <2> TAKE n \in 1 .. N
  <2>1. words[n] \in Seq(Elems(words[n])) /\ Elems(words[n]) \subseteq S
    BY <1>1 DEF IsSequence
  <2> HIDE DEF S
  <2> QED
    BY <2>1, SeqMonotonic
<1>3. x \in S
  <2> HIDE DEF W
  <2> QED
    OBVIOUS
<1> HIDE DEF S
<1>4. \A n \in 1 .. N : F[n] = (IF n = 1 THEN <<>> ELSE <<x>>) \o words[n]
  BY <1>1 DEF Between
<1>5. ASSUME NEW n \in 1 .. N
      PROVE  /\ F[n] \in Seq(S) /\ Len(F[n]) = Lead(n) + Len(words[n]) /\ Len(words[n]) \in Nat /\ Lead(n) \in {0, 1}
             /\ n # 1 => F[n][1] = x /\ Lead(n) = 1
             /\ \A j \in 1 .. Len(words[n]) : F[n][Lead(n) + j] = words[n][j]
  <2>1. n \in Nat /\ words[n] \in Seq(S) /\ F[n] = (IF n = 1 THEN <<>> ELSE <<x>>) \o words[n]
    <3> HIDE DEF F
    <3>1. n \in Nat
      OBVIOUS
    <3> QED
      BY <1>2, <1>4, <3>1
  <2> DEFINE p == F[n]
             w == words[n]
  <2>2. n \in Nat /\ w \in Seq(S) /\ p = AfterSep(w, x, n)
    BY <2>1 DEF AfterSep
  <2> HIDE DEF p, w, F, N, S
  <2>3. LiesBehind(S, p, w, x, n)
    BY <1>3, <2>2, OneWord
  <2> QED
    BY <2>3 DEF p, w, LiesBehind
<1>6. F \in [1 .. N -> Seq(S)]
  <2>1. F = [n \in 1 .. N |-> F[n]]
    BY <1>1 DEF Between
  <2> HIDE DEF F
  <2> QED
    BY <1>5, <2>1
<1> HIDE DEF F, N
<1>7. PICK f : Flat(f, N, F, S, q)
  BY <1>1, <1>6, FlatIs
<1> HIDE DEF q
<1>8. /\ q = f[N] /\ q \in Seq(S) /\ Len(q) \in Nat
      /\ f[0] = <<>>
      /\ \A n \in 0 .. N : Len(f[n]) \in Nat
      /\ \A n \in 1 .. N : Len(f[n]) = Len(f[n - 1]) + Len(F[n])
      /\ \A n \in 0 .. N : \A m \in 0 .. n : Len(f[m]) <= Len(f[n])
      /\ \A n \in 1 .. N : \A i \in 1 .. Len(F[n]) : q[Len(f[n - 1]) + i] = F[n][i]
      /\ \A j \in 1 .. Len(q) : \E n \in 1 .. N : \E i \in 1 .. Len(F[n]) : j = Len(f[n - 1]) + i
  BY <1>7 DEF Flat, Grows
<1>9. Len(f[0]) = 0
  BY <1>8
<1>10. \A n \in 0 .. N : Len(f[n]) <= Len(q)
  BY <1>1, <1>8
<1>11. ASSUME NEW n \in 1 .. N
       PROVE  /\ Len(f[n]) = Len(f[n - 1]) + (Lead(n) + Len(words[n]))
              /\ \A m \in 1 .. n : Len(f[m]) <= Len(f[n])
              /\ n # 1 => q[Len(f[n - 1]) + 1] = x
              /\ \A i \in 1 .. Len(words[n]) : q[Len(f[n - 1]) + (Lead(n) + i)] = words[n][i]
  <2> DEFINE d == Lead(n)
             l == Len(words[n])
  <2>1. Len(F[n]) = d + l /\ l \in Nat /\ d \in {0, 1} /\ (n # 1 => d = 1)
    BY <1>5
  <2> HIDE DEF d, l
  <2>2. (n # 1 => 1 \in 1 .. Len(F[n])) /\ \A i \in 1 .. l : d + i \in 1 .. Len(F[n])
    BY <2>1
  <2>3. \A i \in 1 .. Len(F[n]) : q[Len(f[n - 1]) + i] = F[n][i]
    BY <1>8
  <2>4. n # 1 => q[Len(f[n - 1]) + 1] = x
    BY <1>5, <2>2, <2>3
  <2>5. \A i \in 1 .. l : q[Len(f[n - 1]) + (d + i)] = words[n][i]
    BY <1>5, <2>2, <2>3 DEF d, l
  <2>6. n \in 0 .. N /\ 1 .. n \subseteq 0 .. n
    BY <1>1
  <2> QED
    BY <1>8, <2>1, <2>4, <2>5, <2>6 DEF d, l
<1>12. ASSUME NEW j \in 1 .. Len(q)
       PROVE  \E n \in 1 .. N : \/ n # 1 /\ j = Len(f[n - 1]) + 1
                                \/ \E i \in 1 .. Len(words[n]) : j = Len(f[n - 1]) + (Lead(n) + i)
  <2>1. PICK n \in 1 .. N : \E i \in 1 .. Len(F[n]) : j = Len(f[n - 1]) + i
    BY <1>8
  <2>2. PICK i \in 1 .. Len(F[n]) : j = Len(f[n - 1]) + i
    BY <2>1
  <2> DEFINE d == Lead(n)
             l == Len(words[n])
  <2>3. Len(F[n]) = d + l /\ l \in Nat /\ d \in {0, 1} /\ (n = 1 => d = 0)
    BY <1>5 DEF Lead
  <2> HIDE DEF d, l
  <2>4. CASE i <= d
    <3>1. n # 1 /\ i = 1
      BY <2>3, <2>4
    <3> QED
      BY <2>2, <3>1
  <2>5. CASE ~(i <= d)
    <3>1. i - d \in 1 .. l /\ d + (i - d) = i
      BY <2>3, <2>5
    <3>2. j = Len(f[n - 1]) + (d + (i - d))
      BY <2>2, <3>1
    <3> QED
      BY <3>1, <3>2 DEF d, l
  <2> QED
    BY <2>4, <2>5
<1>13. IsSequence(q)
  BY <1>8, IsSequenceOf
<1>14. \A n \in 1 .. N : IsSequence(words[n]) /\ \A i \in DOMAIN words[n] : words[n][i] # x
  BY <1>1
<1>15. Spread(words, x, f, q)
  BY <1>1, <1>8, <1>9, <1>10, <1>11, <1>12, <1>13, <1>14 DEF Spread, N
<1> QED
  BY <1>15 DEF q, F

\* Cut at the separator they are the same words again.
LEMMA SplitSpread ==
    ASSUME NEW words, IsSequence(words), NEW x, NEW f, NEW q, Spread(words, x, f, q)
    PROVE  Split(q, {x}) = words
<1> DEFINE N == Len(words)
           c == [k \in 0 .. N |-> Cut(f, k)]
           class == {x}
<1>1. /\ N \in Nat \ {0} /\ DOMAIN words = 1 .. N /\ Len(q) \in Nat /\ DOMAIN q = 1 .. Len(q)
      /\ Len(f[0]) = 0 /\ Len(f[N]) = Len(q)
      /\ \A n \in 0 .. N : Len(f[n]) \in Nat /\ Len(f[n]) <= Len(q)
      /\ \A n \in 1 .. N : \A m \in 1 .. n : Len(f[m]) <= Len(f[n])
      /\ \A n \in 1 .. N : Len(words[n]) \in Nat /\ DOMAIN words[n] = 1 .. Len(words[n])
  BY LenProperties DEF Spread, IsSequence
<1>2. \A n \in 1 .. N :
          /\ IsSequence(words[n]) /\ \A i \in DOMAIN words[n] : words[n][i] # x
          /\ Len(f[n]) = Len(f[n - 1]) + (Lead(n) + Len(words[n]))
          /\ n # 1 => q[Len(f[n - 1]) + 1] = x
          /\ \A i \in 1 .. Len(words[n]) : q[Len(f[n - 1]) + (Lead(n) + i)] = words[n][i]
  BY DEF Spread
<1>3. \A k \in 1 .. N : k # 1 => Len(f[k - 1]) < Len(f[k])
  <2> TAKE k \in 1 .. N
  <2> DEFINE a == Len(f[k - 1])
             l == Len(words[k])
  <2>0. k - 1 \in 0 .. N /\ (k # 1 => Lead(k) = 1)
    BY <1>1 DEF Lead
  <2>1. Len(f[k]) = a + (Lead(k) + l) /\ l \in Nat /\ a \in Nat
    BY <1>1, <1>2, <2>0
  <2> HIDE DEF a, l
  <2>2. k # 1 => a < Len(f[k])
    BY <2>0, <2>1
  <2> QED
    BY <2>2 DEF a
<1>4. c \in [0 .. N -> Nat]
  BY <1>1 DEF Cut
<1>5. \A i, j \in 0 .. N : i < j => c[i] < c[j]
  <2> SUFFICES ASSUME NEW i \in 0 .. N, NEW j \in 0 .. N, i < j PROVE Cut(f, i) < Cut(f, j)
    OBVIOUS
  <2>1. CASE i = 0
    BY <1>1, <2>1 DEF Cut
  <2>2. CASE i # 0
    <3>1. j \in 1 .. N /\ j # 1 /\ j - 1 \in 1 .. N /\ i \in 1 .. (j - 1) /\ j # 0
      BY <2>2
    <3> DEFINE a == Len(f[i])
               b == Len(f[j - 1])
               e == Len(f[j])
    <3>2. a <= b /\ b < e /\ a \in Nat /\ b \in Nat /\ e \in Nat
      <4>1. a <= b
        BY <1>1, <3>1
      <4>2. b < e
        BY <1>3, <3>1
      <4>3. j - 1 \in 0 .. N
        BY <3>1
      <4>4. a \in Nat /\ b \in Nat /\ e \in Nat
        BY <1>1, <4>3
      <4> QED
        BY <4>1, <4>2, <4>4
    <3> HIDE DEF a, b, e
    <3>3. a + 1 < e + 1
      BY <3>2
    <3> QED
      BY <2>2, <3>1, <3>3 DEF Cut, a, e
  <2> QED
    BY <2>1, <2>2
<1>6. {0, Len(q) + 1} \cup {i \in DOMAIN q : q[i] \in class} = {c[k] : k \in 0 .. N}
  <2>1. ASSUME NEW y \in DOMAIN q, q[y] = x PROVE \E k \in 0 .. N : y = c[k]
    <3>1. PICK n \in 1 .. N : \/ n # 1 /\ y = Len(f[n - 1]) + 1
                              \/ \E i \in 1 .. Len(words[n]) : y = Len(f[n - 1]) + (Lead(n) + i)
      BY <1>1 DEF Spread
    <3>2. ~\E i \in 1 .. Len(words[n]) : y = Len(f[n - 1]) + (Lead(n) + i)
      <4> SUFFICES ASSUME NEW i \in 1 .. Len(words[n]), y = Len(f[n - 1]) + (Lead(n) + i) PROVE FALSE
        OBVIOUS
      <4>1. q[Len(f[n - 1]) + (Lead(n) + i)] = words[n][i] /\ i \in DOMAIN words[n]
        BY <1>1, <1>2
      <4>2. words[n][i] # x
        BY <1>2, <4>1
      <4> QED
        BY <2>1, <4>1, <4>2
    <3>3. n - 1 \in 0 .. N /\ n - 1 # 0 /\ y = Len(f[n - 1]) + 1
      BY <3>1, <3>2
    <3>4. c[n - 1] = Len(f[n - 1]) + 1
      BY <3>3 DEF Cut
    <3> QED
      BY <3>3, <3>4
  <2>2. 0 \in 0 .. N /\ c[0] = 0 /\ N \in 0 .. N /\ c[N] = Len(q) + 1
    BY <1>1 DEF Cut
  <2>3. ASSUME NEW k \in 0 .. N, k # 0, k # N PROVE c[k] \in DOMAIN q /\ q[c[k]] = x
    <3> DEFINE j == k + 1
               y == Len(f[k]) + 1
    <3>1. j \in 1 .. N /\ j # 1 /\ j - 1 = k /\ c[k] = y
      BY <2>3 DEF Cut
    <3>2. y \in 1 .. Len(q)
      <4> DEFINE a == Len(f[k])
                 b == Len(f[j])
      <4>1. a < b /\ b <= Len(q) /\ a \in Nat /\ b \in Nat
        BY <1>1, <1>3, <3>1
      <4> HIDE DEF a, b
      <4>2. a + 1 \in 1 .. Len(q)
        BY <1>1, <4>1
      <4> QED
        BY <4>2 DEF a
    <3> HIDE DEF j, y
    <3>3. y = Len(f[j - 1]) + 1
      BY <3>1 DEF y
    <3>4. q[y] = x
      BY <1>2, <3>1, <3>3
    <3> QED
      BY <1>1, <3>1, <3>2, <3>4
  <2> HIDE DEF c
  <2>4. \A k \in 0 .. N : c[k] \in {0, Len(q) + 1} \cup {i \in DOMAIN q : q[i] \in class}
    BY <2>2, <2>3
  <2> QED
    BY <2>1, <2>2, <2>4
<1>7. Split(q, class) = [k \in 1 .. N |-> SubSeq(q, c[k - 1] + 1, c[k] - 1)]
  <2> HIDE DEF c, N, class
  <2>1. CutAt(q, class, N, c)
    BY <1>1, <1>4, <1>5, <1>6 DEF CutAt
  <2> QED
    BY <2>1, SplitAt
<1>8. ASSUME NEW k \in 1 .. N PROVE SubSeq(q, c[k - 1] + 1, c[k] - 1) = words[k]
  <2> DEFINE t == words[k]
             a == c[k - 1] + 1
             b == Len(f[k - 1])
             d == Lead(k)
  <2>1. IsSequence(t) /\ Len(t) \in Nat
    BY <1>1, <1>2
  <2>2. /\ b \in Nat /\ d \in {0, 1} /\ a = b + d + 1 /\ c[k] - 1 = Len(f[k]) /\ Len(f[k]) \in Nat
    <3>1. k - 1 \in 0 .. N /\ k \in 0 .. N /\ k # 0 /\ (k - 1 = 0 <=> k = 1)
      OBVIOUS
    <3>2. c[k - 1] = Cut(f, k - 1) /\ c[k] = Cut(f, k)
      BY <3>1
    <3>3. b \in Nat /\ Len(f[k]) \in Nat /\ (k = 1 => b = 0)
      BY <1>1, <3>1
    <3>4. c[k - 1] = (IF k = 1 THEN 0 ELSE b + 1) /\ c[k] = Len(f[k]) + 1
      BY <3>1, <3>2 DEF Cut
    <3> HIDE DEF b, c
    <3> QED
      BY <3>3, <3>4 DEF Lead
  <2>3. /\ Len(f[k]) = b + (d + Len(t))
        /\ \A j \in 1 .. Len(t) : q[b + (d + j)] = t[j]
    BY <1>2
  <2> HIDE DEF t, a, b, c, d
  <2>4. a \in Nat /\ c[k] - 1 = a + (Len(t) - 1)
    BY <2>1, <2>2, <2>3
  <2>5. \A i \in 1 .. Len(t) : q[a + (i - 1)] = t[i]
    <3> TAKE i \in 1 .. Len(t)
    <3>1. a + (i - 1) = b + (d + i)
      BY <2>1, <2>2
    <3> QED
      BY <2>3, <3>1
  <2>6. SubSeq(q, a, a + (Len(t) - 1)) = t
    <3>1. a \in Nat
      BY <2>4
    <3> QED
      BY <2>1, <2>5, <3>1, Slice
  <2> QED
    BY <2>4, <2>6 DEF a, t
<1> HIDE DEF c
<1>9. Split(q, class) = [k \in 1 .. N |-> words[k]]
  BY <1>7, <1>8
<1>10. words = [k \in 1 .. N |-> words[k]]
  <2>1. words \in Seq(Elems(words))
    BY DEF IsSequence
  <2> QED
    BY <1>1, <2>1, SeqDef
<1> QED
  BY <1>9, <1>10 DEF class

-----------------------------------------------------------------------------
(* The parts that are not empty, and the words they make.                     *)

\* A part that is there is kept, an empty one is dropped.
Kept(parts) == [i \in DOMAIN parts |-> IF parts[i] = <<>> THEN <<>> ELSE <<parts[i]>>]

\* Filled keeps the parts that are not empty; of all of them, if none is, in their order.
LEMMA FilledIs ==
    ASSUME NEW parts, IsSequence(parts), NEW words, words = Filled(parts)
    PROVE  /\ IsSequence(words) /\ Elems(words) \subseteq Elems(parts)
           /\ \A k \in DOMAIN words : words[k] # <<>>
           /\ (\A i \in DOMAIN parts : parts[i] # <<>>) => words = parts
<1> DEFINE N == Len(parts)
           F == Kept(parts)
           S == Elems(parts) \ {<<>>}
<1>1. N \in Nat /\ DOMAIN parts = 1 .. N /\ parts \in Seq(Elems(parts)) /\ \A i \in 1 .. N : parts[i] \in Elems(parts)
  BY LenProperties, ElementOfSeq DEF IsSequence
<1>2. \A i \in 1 .. N : F[i] = IF parts[i] = <<>> THEN <<>> ELSE <<parts[i]>>
  BY <1>1 DEF Kept
<1>3. \A i \in 1 .. N : F[i] \in Seq(S)
  <2>1. \A y \in S : <<y>> \in Seq(S)
    OBVIOUS
  <2>2. <<>> \in Seq(S)
    OBVIOUS
  <2>3. \A i \in 1 .. N : parts[i] # <<>> => parts[i] \in S
    BY <1>1
  <2> HIDE DEF S, F, N
  <2> QED
    BY <1>2, <2>1, <2>2, <2>3
<1>4. F \in [1 .. N -> Seq(S)]
  <2>1. F = [i \in 1 .. N |-> F[i]]
    BY <1>1 DEF Kept
  <2> HIDE DEF F, S
  <2> QED
    BY <1>3, <2>1
<1>5. words = Ext!FlattenSeq(F)
  BY DEF Filled, Kept
<1> HIDE DEF F, N
<1>6. PICK f : Flat(f, N, F, S, words)
  BY <1>1, <1>4, <1>5, FlatIs
<1>7. words \in Seq(S)
  BY <1>6 DEF Flat
<1>8. Elems(words) \subseteq S /\ DOMAIN words = 1 .. Len(words)
  <2>1. DOMAIN words = 1 .. Len(words) /\ \A i \in 1 .. Len(words) : words[i] \in S
    BY <1>7, LenProperties, ElementOfSeq
  <2> QED
    BY <2>1 DEF Elems
<1>9. \A k \in DOMAIN words : words[k] # <<>>
  BY <1>7, <1>8, ElementOfSeq
<1>10. ASSUME \A i \in DOMAIN parts : parts[i] # <<>> PROVE words = parts
  <2>1. \A i \in 1 .. N : F[i] = <<parts[i]>>
    BY <1>1, <1>2, <1>10
  <2>2. \A i \in 1 .. N : Len(F[i]) = 1 /\ F[i][1] = parts[i]
    BY <2>1
  <2>3. /\ words = f[N] /\ f[0] = <<>>
        /\ \A n \in 1 .. N : Len(f[n]) = Len(f[n - 1]) + Len(F[n])
        /\ \A n \in 1 .. N : \A i \in 1 .. Len(F[n]) : words[Len(f[n - 1]) + i] = F[n][i]
    BY <1>6 DEF Flat, Grows
  <2> DEFINE P == {n \in Nat : n <= N => Len(f[n]) = n}
  <2>4. 0 \in P
    BY <2>3
  <2>5. ASSUME NEW n \in Nat, n \in P PROVE n + 1 \in P
    <3> DEFINE j == n + 1
    <3>1. j \in Nat /\ (j <= N => j \in 1 .. N /\ j - 1 = n /\ n <= N)
      BY <1>1
    <3> HIDE DEF j
    <3>2. j <= N => Len(f[j]) = n + 1
      <4> SUFFICES ASSUME j <= N PROVE Len(f[j]) = n + 1
        OBVIOUS
      <4>1. Len(f[j]) = Len(f[j - 1]) + Len(F[j])
        BY <2>3, <3>1
      <4>2. Len(f[j - 1]) = n
        BY <2>5, <3>1
      <4>3. Len(F[j]) = 1
        BY <2>2, <3>1
      <4> QED
        BY <4>1, <4>2, <4>3
    <3> QED
      BY <3>1, <3>2 DEF j
  <2> HIDE DEF P
  <2>6. Nat \subseteq P
    BY <2>4, <2>5, Induction
  <2>7. \A n \in 0 .. N : Len(f[n]) = n
    BY <1>1, <2>6 DEF P
  <2>8. Len(words) = N
    BY <1>1, <2>3, <2>7
  <2>9. ASSUME NEW n \in 1 .. N PROVE words[n] = parts[n]
    <3>1. n - 1 \in 0 .. N /\ (n - 1) + 1 = n
      BY <1>1
    <3>2. Len(f[n - 1]) = n - 1 /\ 1 \in 1 .. Len(F[n])
      BY <2>2, <2>7, <3>1
    <3>3. words[Len(f[n - 1]) + 1] = F[n][1]
      BY <2>3, <3>2
    <3> QED
      BY <2>2, <3>1, <3>2, <3>3
  <2>10. words \in Seq(Elems(parts))
    <3>1. S \subseteq Elems(parts)
      OBVIOUS
    <3> HIDE DEF S
    <3> QED
      BY <1>7, <3>1, SeqMonotonic
  <2>11. \A n \in 1 .. Len(words) : words[n] = parts[n]
    BY <2>8, <2>9
  <2>12. Len(words) = Len(parts)
    BY <2>8 DEF N
  <2> QED
    BY <1>1, <2>10, <2>11, <2>12, SeqEqual
<1>11. IsSequence(words)
  BY <1>7, IsSequenceOf
<1> QED
  BY <1>8, <1>9, <1>10, <1>11

\* Texts with no space in them and none empty.
AreWords(words) ==
    /\ IsSequence(words)
    /\ \A k \in DOMAIN words : /\ IsSequence(words[k]) /\ words[k] # <<>>
                               /\ \A i \in DOMAIN words[k] : words[k][i] # " "

\* Cut at the spaces, spaced words are the same again.
LEMMA SpacedSplits ==
    ASSUME NEW words, AreWords(words), words # <<>>
    PROVE  IsSequence(Spaced(words)) /\ Split(Spaced(words), {" "}) = words /\ Filled(words) = words
<1> DEFINE x == " "
           q == Ext!FlattenSeq(Between(words, x))
<1>1. q = Spaced(words)
  BY DEF Spaced, Between
<1>2. /\ IsSequence(words)
      /\ \A n \in DOMAIN words : IsSequence(words[n]) /\ \A i \in DOMAIN words[n] : words[n][i] # x
  BY DEF AreWords
<1> HIDE DEF x
<1>3. PICK f : Spread(words, x, f, q)
  BY <1>2, SpreadOut
<1>4. Split(q, {x}) = words
  BY <1>2, <1>3, SplitSpread
<1>5. IsSequence(q)
  BY <1>3 DEF Spread
<1>6. Filled(words) = words
  BY <1>2, FilledIs DEF AreWords
<1> QED
  BY <1>1, <1>4, <1>5, <1>6 DEF x

\* What fills a text between its spaces are words.
LEMMA FilledWords ==
    ASSUME NEW raw, IsSequence(raw)
    PROVE  AreWords(Filled(Split(raw, {" "})))
<1> DEFINE class == {" "}
           parts == Split(raw, class)
           words == Filled(parts)
<1>1. IsParts(raw, class, parts)
  <2> HIDE DEF class
  <2> QED
    BY SplitParts
<1>2. /\ IsSequence(parts)
      /\ \A k \in DOMAIN parts : IsSequence(parts[k]) /\ \A i \in DOMAIN parts[k] : parts[k][i] # " "
  BY <1>1 DEF IsParts
<1> HIDE DEF parts
<1>3. /\ IsSequence(words) /\ Elems(words) \subseteq Elems(parts)
      /\ \A k \in DOMAIN words : words[k] # <<>>
  BY <1>2, FilledIs
<1> HIDE DEF words
<1>4. ASSUME NEW k \in DOMAIN words PROVE \E i \in DOMAIN parts : words[k] = parts[i]
  BY <1>3 DEF Elems
<1>5. AreWords(words)
  <2>1. ASSUME NEW k \in DOMAIN words
        PROVE  /\ IsSequence(words[k]) /\ words[k] # <<>>
               /\ \A i \in DOMAIN words[k] : words[k][i] # " "
    <3>1. PICK i \in DOMAIN parts : words[k] = parts[i]
      BY <1>4
    <3> QED
      BY <1>2, <1>3, <3>1
  <2> QED
    BY <1>3, <2>1 DEF AreWords
<1> QED
  BY <1>5 DEF words, parts

-----------------------------------------------------------------------------
(* A version is two numbers with a dot between them.                          *)

\* Every part is a text, and there is a first one; a second one if there are more.
LEMMA PartsAre ==
    ASSUME NEW s, IsSequence(s), NEW class, NEW parts, parts = Split(s, class)
    PROVE  /\ IsSequence(First(s, class)) /\ First(s, class) = parts[1] /\ IsSequence(parts[1])
           /\ \A i \in DOMAIN parts[1] : parts[1][i] \notin class
           /\ Len(parts) > 1 => IsSequence(parts[2])
<1>1. IsParts(s, class, parts)
  BY SplitParts
<1>2. /\ IsSequence(parts) /\ parts # <<>>
      /\ \A k \in DOMAIN parts : IsSequence(parts[k]) /\ \A i \in DOMAIN parts[k] : parts[k][i] \notin class
  BY <1>1 DEF IsParts
<1>3. DOMAIN parts = 1 .. Len(parts) /\ Len(parts) \in Nat /\ Len(parts) # 0
  BY <1>2, LenProperties, EmptySeq DEF IsSequence
<1>4. 1 \in DOMAIN parts /\ (Len(parts) > 1 => 2 \in DOMAIN parts)
  BY <1>3
<1> QED
  BY <1>2, <1>4 DEF First

\* A number is a text of digits, and not empty.
Number(s) == IsSequence(s) /\ Numeric(s)

\* It holds no separator and begins with no letter.
LEMMA NumberIs ==
    ASSUME NEW s, Number(s)
    PROVE  /\ IsSequence(s) /\ s # <<>> /\ Len(s) \in Nat /\ Len(s) >= 1 /\ DOMAIN s = 1 .. Len(s)
           /\ s[1] \in Digit /\ s[1] \notin Letter
           /\ \A i \in DOMAIN s : s[i] \in Digit /\ s[i] \notin {" ", ".", "-", "+", "_"}
<1>1. IsSequence(s) /\ s # <<>> /\ \A i \in DOMAIN s : s[i] \in Digit
  BY DEF Number, Numeric, AllIn
<1>2. DOMAIN s = 1 .. Len(s) /\ Len(s) \in Nat /\ Len(s) # 0
  BY <1>1, LenProperties, EmptySeq DEF IsSequence
<1>3. Len(s) >= 1 /\ 1 \in DOMAIN s
  BY <1>2
<1>4. \A x \in Digit : x \notin Letter /\ x \notin {" ", ".", "-", "+", "_"}
  BY QuasiAssumption
<1> QED
  BY <1>1, <1>2, <1>3, <1>4

\* What the operating system's version is cut down to, and stays when it is cut again.
VersionWord(w) ==
    /\ IsSequence(w) /\ w # <<>> /\ w[1] \in Digit /\ \A i \in DOMAIN w : w[i] # " "
    /\ Version(w) /\ coarsen_os_version_token(w) = w

\* A number is one.
LEMMA NumberWord ==
    ASSUME NEW s, Number(s)
    PROVE  VersionWord(s)
<1> DEFINE class == {"."}
           parts == Split(s, class)
<1>0. /\ IsSequence(s) /\ s # <<>> /\ s[1] \in Digit
      /\ \A i \in DOMAIN s : s[i] \notin {" ", ".", "-", "+", "_"}
  BY NumberIs
<1>1. parts = [k \in 1 .. 1 |-> s]
  <2>1. \A i \in DOMAIN s : s[i] \notin class
    BY <1>0
  <2> HIDE DEF class
  <2> QED
    BY <1>0, <2>1, NotCut
<1>6. /\ coarsen_os_version_token(s) =
           IF ~Numeric(parts[1]) THEN <<>>
           ELSE IF Len(parts) > 1 /\ Numeric(parts[2]) THEN (parts[1] \o <<".">>) \o parts[2]
           ELSE parts[1]
      /\ Version(s) <=> (Len(parts) <= 2 /\ \A n \in DOMAIN parts : Numeric(parts[n]))
  BY DEF coarsen_os_version_token, Version
<1> HIDE DEF parts
<1>2. DOMAIN parts = 1 .. 1 /\ parts[1] = s /\ Len(parts) = 1
  BY <1>1
<1>3. Numeric(s)
  BY DEF Number
<1>4. coarsen_os_version_token(s) = s
  BY <1>2, <1>3, <1>6
<1>5. Version(s)
  <2>1. \A n \in DOMAIN parts : Numeric(parts[n])
    BY <1>2, <1>3
  <2> QED
    BY <1>2, <1>6, <2>1
<1> QED
  BY <1>0, <1>4, <1>5 DEF VersionWord

\* Two numbers with a dot between them.
MajorMinor(v, M, m) == Number(M) /\ Number(m) /\ v = (M \o <<".">>) \o m

\* A text that begins with a digit, holds digits and one dot, and can be cut there.
CutAtDot(v, M, m) ==
    /\ IsSequence(v) /\ v # <<>> /\ v[1] \in Digit /\ v[1] \notin Letter
    /\ \A i \in DOMAIN v : v[i] \in Digit \cup {"."} /\ v[i] \notin {" ", "-", "+", "_"}
    /\ Split(v, {"."}) = [k \in 1 .. 2 |-> IF k = 1 THEN M ELSE m]

\* They are such a text.
LEMMA Dotted ==
    ASSUME NEW M, NEW m, NEW v, MajorMinor(v, M, m)
    PROVE  CutAtDot(v, M, m)
<1>0. Number(M) /\ Number(m)
  BY DEF MajorMinor
<1>1. /\ IsSequence(M) /\ Len(M) \in Nat /\ Len(M) >= 1 /\ M[1] \in Digit /\ DOMAIN M = 1 .. Len(M)
      /\ \A i \in DOMAIN M : M[i] \in Digit /\ M[i] \notin {" ", ".", "-", "+", "_"}
  BY <1>0, NumberIs
<1>2. /\ IsSequence(m) /\ Len(m) \in Nat /\ DOMAIN m = 1 .. Len(m)
      /\ \A i \in DOMAIN m : m[i] \in Digit /\ m[i] \notin {" ", ".", "-", "+", "_"}
  BY <1>0, NumberIs
<1> DEFINE x == "."
           o == <<x>>
           S == Digit \cup {x}
           h == M \o o
<1>3. v = (M \o <<x>>) \o m
  BY DEF MajorMinor
<1>4. Split(v, {"."}) = [k \in 1 .. 2 |-> IF k = 1 THEN M ELSE m]
  <2>1. \A i \in DOMAIN M : M[i] # x
    BY <1>1
  <2>3. \A i \in DOMAIN m : m[i] # x
    BY <1>2
  <2>4. IsSequence(M) /\ IsSequence(m)
    BY <1>1, <1>2
  <2> HIDE DEF x
  <2>2. Split((M \o <<x>>) \o m, {x}) = [k \in 1 .. 2 |-> IF k = 1 THEN M ELSE m]
    BY <2>1, <2>3, <2>4, TwoParts
  <2> QED
    BY <1>3, <2>2 DEF x
<1>5. M \in Seq(S) /\ m \in Seq(S) /\ o \in Seq(S) /\ Len(o) = 1
  <2>1. M \in Seq(Digit) /\ m \in Seq(Digit)
    <3>1. M = [i \in 1 .. Len(M) |-> M[i]] /\ m = [i \in 1 .. Len(m) |-> m[i]]
      <4>1. M \in Seq(Elems(M)) /\ m \in Seq(Elems(m))
        BY <1>1, <1>2 DEF IsSequence
      <4>2. M \in [1 .. Len(M) -> Elems(M)] /\ m \in [1 .. Len(m) -> Elems(m)]
        BY <4>1, LenProperties
      <4> QED
        BY <4>2
    <3>2. M \in [1 .. Len(M) -> Digit] /\ m \in [1 .. Len(m) -> Digit]
      BY <1>1, <1>2, <3>1
    <3> QED
      BY <1>1, <1>2, <3>2, SeqDef
  <2>2. Digit \subseteq S /\ x \in S
    OBVIOUS
  <2>3. \A y \in S : <<y>> \in Seq(S) /\ Len(<<y>>) = 1
    OBVIOUS
  <2> HIDE DEF S
  <2> QED
    BY <2>1, <2>2, <2>3, SeqMonotonic
<1>6. v = h \o m
  BY <1>3
<1> HIDE DEF o, S
<1>7. /\ h \in Seq(S) /\ Len(h) = Len(M) + 1
      /\ \A i \in 1 .. Len(M) + 1 : i <= Len(M) => h[i] = M[i]
  <2>1. /\ M \o o \in Seq(S) /\ Len(M \o o) = Len(M) + Len(o)
        /\ \A i \in 1 .. Len(M) + Len(o) : (M \o o)[i] = IF i <= Len(M) THEN M[i] ELSE o[i - Len(M)]
    BY <1>5, ConcatProperties
  <2> QED
    BY <1>5, <2>1
<1> HIDE DEF h
<1>8. /\ v \in Seq(S) /\ Len(v) = Len(M) + 1 + Len(m)
      /\ \A i \in 1 .. Len(M) + 1 + Len(m) : i <= Len(M) + 1 => v[i] = h[i]
  <2>1. /\ h \o m \in Seq(S) /\ Len(h \o m) = Len(h) + Len(m)
        /\ \A i \in 1 .. Len(h) + Len(m) : (h \o m)[i] = IF i <= Len(h) THEN h[i] ELSE m[i - Len(h)]
    BY <1>5, <1>7, ConcatProperties
  <2> QED
    BY <1>6, <1>7, <2>1
<1>9. v[1] = M[1]
  <2> DEFINE a == Len(M)
             b == Len(m)
  <2>2. a \in Nat /\ a >= 1 /\ b \in Nat
    BY <1>1, <1>2
  <2> HIDE DEF a, b
  <2>3. 1 \in 1 .. a + 1 + b /\ 1 <= a + 1 /\ 1 \in 1 .. a + 1 /\ 1 <= a
    BY <2>2
  <2>1. 1 \in 1 .. Len(M) + 1 + Len(m) /\ 1 <= Len(M) + 1 /\ 1 \in 1 .. Len(M) + 1 /\ 1 <= Len(M)
    BY <2>3 DEF a, b
  <2> QED
    BY <1>7, <1>8, <2>1
<1>10. IsSequence(v) /\ DOMAIN v = 1 .. Len(v) /\ Len(v) # 0 /\ \A i \in 1 .. Len(v) : v[i] \in S
  <2>1. Len(v) # 0
    <3> DEFINE a == Len(M)
               b == Len(m)
    <3>1. a \in Nat /\ b \in Nat /\ Len(v) = a + 1 + b
      BY <1>1, <1>2, <1>8
    <3> HIDE DEF a, b
    <3> QED
      BY <3>1
  <2> QED
    BY <1>8, <2>1, IsSequenceOf, LenProperties, ElementOfSeq
<1>11. v # <<>>
  BY <1>10
<1>12. \A y \in S : y \in Digit \cup {"."} /\ y \notin {" ", "-", "+", "_"}
  <2>1. \A y \in Digit : y \notin {" ", "-", "+", "_"}
    BY QuasiAssumption
  <2> QED
    BY <2>1 DEF S
<1>13. M[1] \notin Letter
  BY <1>1, QuasiAssumption
<1> HIDE DEF x
<1> QED
  BY <1>1, <1>4, <1>9, <1>10, <1>11, <1>12, <1>13 DEF CutAtDot

\* They stay what they are, as a token of the system's name and as a program's version.
LEMMA DottedWord ==
    ASSUME NEW M, NEW m, NEW v, MajorMinor(v, M, m)
    PROVE  VersionWord(v) /\ coarsen_version(v) = v
<1> DEFINE parts == Split(v, {"."})
<1>0. Numeric(M) /\ Numeric(m) /\ IsSequence(M) /\ IsSequence(m) /\ v = (M \o <<".">>) \o m
  BY DEF MajorMinor, Number
<1>11. CutAtDot(v, M, m)
  BY Dotted
<1>1. /\ IsSequence(v) /\ v # <<>> /\ v[1] \in Digit /\ v[1] \notin Letter
      /\ \A i \in DOMAIN v : v[i] \in Digit \cup {"."} /\ v[i] \notin {" ", "-", "+", "_"}
      /\ parts = [k \in 1 .. 2 |-> IF k = 1 THEN M ELSE m]
  BY <1>11 DEF CutAtDot
<1>12. /\ coarsen_os_version_token(v) =
            IF ~Numeric(parts[1]) THEN <<>>
            ELSE IF Len(parts) > 1 /\ Numeric(parts[2]) THEN (parts[1] \o <<".">>) \o parts[2]
            ELSE parts[1]
       /\ Version(v) <=> (Len(parts) <= 2 /\ \A n \in DOMAIN parts : Numeric(parts[n]))
  BY DEF coarsen_os_version_token, Version
<1>3. Split(v, {"."}) = parts
  OBVIOUS
<1> HIDE DEF parts
<1>2. Len(parts) = 2 /\ DOMAIN parts = 1 .. 2 /\ parts[1] = M /\ parts[2] = m
  <2>1. parts = [k \in 1 .. 2 |-> IF k = 1 THEN M ELSE m]
    BY <1>1
  <2> QED
    BY <2>1
<1>4. coarsen_os_version_token(v) = v
  <2>1. Len(parts) > 1
    BY <1>2
  <2> QED
    BY <1>0, <1>2, <1>12, <2>1
<1>5. Version(v)
  <2>1. \A n \in DOMAIN parts : Numeric(parts[n])
    <3>1. \A n : n \in 1 .. 2 => n = 1 \/ n = 2
      OBVIOUS
    <3> QED
      BY <1>0, <1>2, <3>1
  <2>2. Len(parts) <= 2
    BY <1>2
  <2> QED
    BY <1>12, <2>1, <2>2
<1>6. Trim(v) = v
  BY <1>1, Trims
<1>7. TrimLeft(v, VLetter) = v
  BY <1>1, QuasiAssumption, Trims
<1>8. First(v, {"-", "+"}) = v
  <2> DEFINE class == {"-", "+"}
  <2>1. \A i \in DOMAIN v : v[i] \notin class
    BY <1>1
  <2> HIDE DEF class
  <2>2. First(v, class) = v
    BY <1>1, <2>1, NotCut
  <2> QED
    BY <2>2 DEF class
<1>9. Trim(M) = M /\ Trim(m) = m
  <2>1. (\A i \in DOMAIN M : M[i] # " ") /\ \A i \in DOMAIN m : m[i] # " "
    BY NumberIs DEF MajorMinor
  <2> QED
    BY <1>0, <2>1, Trims
<1>10. coarsen_version(v) = v
  <2>1. Split(First(TrimLeft(Trim(v), VLetter), {"-", "+"}), {"."}) = parts
    BY <1>3, <1>6, <1>7, <1>8
  <2>2. Numeric(Trim(parts[1])) /\ Len(parts) > 1 /\ Numeric(Trim(parts[2]))
    BY <1>0, <1>2, <1>9
  <2>3. coarsen_version(v) = (Trim(parts[1]) \o <<".">>) \o Trim(parts[2])
    BY <2>1, <2>2 DEF coarsen_version
  <2> QED
    BY <1>0, <1>2, <1>9, <2>3
<1> QED
  BY <1>1, <1>4, <1>5, <1>10 DEF VersionWord

\* A program's version is two numbers, or it is left out (quasi.rs:110).
LEMMA VersionIs ==
    ASSUME NEW raw, IsSequence(raw), coarsen_version(raw) # <<>>
    PROVE  \E M, m : MajorMinor(coarsen_version(raw), M, m)
<1> DEFINE text == First(TrimLeft(Trim(raw), VLetter), {"-", "+"})
           parts == Split(text, {"."})
           major == Trim(parts[1])
           minor == IF Len(parts) > 1 /\ Numeric(Trim(parts[2])) THEN Trim(parts[2]) ELSE <<"0">>
<1>1. IsSequence(text)
  <2>1. IsSequence(TrimLeft(Trim(raw), VLetter))
    BY Trims
  <2> QED
    BY <2>1, PartsAre
<1> HIDE DEF text
<1>2. IsSequence(parts[1]) /\ (Len(parts) > 1 => IsSequence(parts[2]))
  BY <1>1, PartsAre
<1>3. coarsen_version(raw) = IF Numeric(major) THEN (major \o <<".">>) \o minor ELSE <<>>
  BY DEF coarsen_version, text
<1> HIDE DEF parts
<1>4. Number(major)
  BY <1>2, <1>3, Trims DEF Number
<1>5. Number(minor)
  <2>1. CASE Len(parts) > 1 /\ Numeric(Trim(parts[2]))
    BY <1>2, <2>1, Trims DEF Number
  <2>2. CASE ~(Len(parts) > 1 /\ Numeric(Trim(parts[2])))
    <3>1. Number(<<"0">>)
      <4> DEFINE z == "0"
                 w == <<z>>
      <4>1. z \in Digit
        BY QuasiAssumption
      <4> HIDE DEF z
      <4>2. w \in Seq(Digit) /\ w # <<>> /\ DOMAIN w = {1} /\ w[1] = z
        BY <4>1
      <4>3. IsSequence(w)
        BY <4>2, IsSequenceOf
      <4> QED
        BY <4>1, <4>2, <4>3 DEF Number, Numeric, AllIn, z
    <3> QED
      BY <2>2, <3>1
  <2> QED
    BY <2>1, <2>2
<1> HIDE DEF major, minor
<1> QED
  BY <1>3, <1>4, <1>5 DEF MajorMinor, Number

\* What is left of the token behind the words is a version, or nothing (quasi.rs:85).
LEMMA TokenIs ==
    ASSUME NEW token, IsSequence(token), coarsen_os_version_token(token) # <<>>
    PROVE  VersionWord(coarsen_os_version_token(token))
<1> DEFINE parts == Split(token, {"."})
           v == coarsen_os_version_token(token)
<1>1. IsSequence(parts[1]) /\ (Len(parts) > 1 => IsSequence(parts[2]))
  BY PartsAre
<1>2. v = IF ~Numeric(parts[1]) THEN <<>>
          ELSE IF Len(parts) > 1 /\ Numeric(parts[2]) THEN (parts[1] \o <<".">>) \o parts[2]
          ELSE parts[1]
  BY DEF coarsen_os_version_token
<1> HIDE DEF parts
<1>3. Number(parts[1])
  BY <1>1, <1>2 DEF Number
<1>4. CASE Len(parts) > 1 /\ Numeric(parts[2])
  <2>1. MajorMinor(v, parts[1], parts[2])
    BY <1>1, <1>2, <1>3, <1>4 DEF MajorMinor, Number
  <2> HIDE DEF v
  <2> QED
    BY <2>1, DottedWord DEF v
<1>5. CASE ~(Len(parts) > 1 /\ Numeric(parts[2]))
  <2>1. v = parts[1]
    BY <1>2, <1>3, <1>5 DEF Number
  <2> QED
    BY <1>3, <2>1, NumberWord
<1> QED
  BY <1>4, <1>5

-----------------------------------------------------------------------------
(* An operating system is words and perhaps a version.                        *)

\* A sequence with one more behind it.
Longer(s, x, t) ==
    /\ IsSequence(t) /\ Len(s) \in Nat /\ Len(t) = Len(s) + 1 /\ DOMAIN t = 1 .. (Len(s) + 1)
    /\ \A i \in 1 .. Len(s) : t[i] = s[i]
    /\ t[Len(s) + 1] = x

\* That is what appending one makes.
LEMMA WithOneMore ==
    ASSUME NEW s, IsSequence(s), NEW x, NEW t, t = s \o <<x>>
    PROVE  Longer(s, x, t)
<1> DEFINE S == Elems(s) \cup {x}
           o == <<x>>
           a == Len(s)
<1>1. s \in Seq(S) /\ o \in Seq(S) /\ Len(o) = 1 /\ o[1] = x /\ a \in Nat
  BY SeqMonotonic, LenProperties DEF IsSequence
<1> HIDE DEF S, o
<1>2. /\ s \o o \in Seq(S) /\ Len(s \o o) = Len(s) + Len(o)
      /\ \A i \in 1 .. Len(s) + Len(o) : (s \o o)[i] = IF i <= Len(s) THEN s[i] ELSE o[i - Len(s)]
  BY <1>1, ConcatProperties
<1>3. t = s \o o
  BY DEF o
<1>4. t \in Seq(S) /\ Len(t) = a + 1 /\ \A i \in 1 .. a + 1 : t[i] = IF i <= a THEN s[i] ELSE o[i - a]
  BY <1>1, <1>2, <1>3
<1>5. IsSequence(t) /\ DOMAIN t = 1 .. Len(t)
  BY <1>4, IsSequenceOf, LenProperties
<1> HIDE DEF a
<1>6. (\A i \in 1 .. a : i \in 1 .. a + 1 /\ i <= a) /\ a + 1 \in 1 .. a + 1 /\ ~(a + 1 <= a) /\ (a + 1) - a = 1
  BY <1>1
<1>7. (\A i \in 1 .. a : t[i] = s[i]) /\ t[a + 1] = x
  BY <1>1, <1>4, <1>6
<1> QED
  BY <1>1, <1>4, <1>5, <1>7 DEF a, Longer

\* The first elements of a sequence.
LEMMA FirstOnes ==
    ASSUME NEW s, IsSequence(s), NEW n \in Nat, n <= Len(s), NEW u, u = SubSeq(s, 1, n)
    PROVE  IsSequence(u) /\ Len(u) = n /\ DOMAIN u = 1 .. n /\ \A i \in 1 .. n : u[i] = s[i]
<1> DEFINE a == 1
<1>1. a \in Nat /\ n \in Int /\ a >= 1 /\ n >= a - 1 /\ n - a + 1 = n /\ \A i \in 1 .. n : a + i - 1 = i
  OBVIOUS
<1>2. u = SubSeq(s, a, n)
  OBVIOUS
<1> HIDE DEF a
<1>3. LET t == SubSeq(s, a, n) IN
      /\ IsSequence(t) /\ Elems(t) \subseteq Elems(s) /\ Len(t) = n - a + 1 /\ DOMAIN t = 1 .. (n - a + 1)
      /\ \A i \in 1 .. (n - a + 1) : a + i - 1 \in a .. n /\ t[i] = s[a + i - 1]
  BY <1>1, SubIs
<1> QED
  BY <1>1, <1>2, <1>3

\* The words in front of place n begin with a letter, and the one there does not.
Fronted(words, n) ==
    /\ n \in 1 .. (Len(words) + 1)
    /\ \A k \in 1 .. (n - 1) : words[k][1] \in Letter
    /\ n = Len(words) + 1 \/ words[n][1] \notin Letter

\* There is one such place.
LEMMA FrontEnds ==
    ASSUME NEW words, IsSequence(words)
    PROVE  /\ \E n : Fronted(words, n)
           /\ \A m, n : Fronted(words, m) /\ Fronted(words, n) => m = n
<1> DEFINE N == Len(words) + 1
           T == {n \in 1 .. N : n = N \/ words[n][1] \notin Letter}
<1>1. N \in Nat /\ N \in 1 .. N
  BY LenProperties DEF IsSequence
<1>2. T \subseteq 1 .. N /\ T # {}
  BY <1>1
<1> HIDE DEF T, N
<1>3. PICK n \in T : \A j \in T : n <= j
  BY <1>1, <1>2, FirstPlace
<1>4. ASSUME NEW k \in 1 .. (n - 1) PROVE words[k][1] \in Letter
  <2>1. n \in 1 .. N
    BY <1>2
  <2>2. k \in 1 .. N /\ ~(n <= k) /\ k # N
    BY <1>1, <2>1
  <2>3. k \notin T
    BY <1>3, <2>2
  <2> QED
    BY <2>2, <2>3 DEF T
<1>5. Fronted(words, n)
  <2>1. n \in 1 .. N /\ (n = N \/ words[n][1] \notin Letter)
    BY DEF T
  <2> QED
    BY <1>4, <2>1 DEF Fronted, N
<1>6. ASSUME NEW a, NEW b, Fronted(words, a), Fronted(words, b), a < b PROVE FALSE
  <2>1. /\ a \in 1 .. N /\ b \in 1 .. N /\ (a = N \/ words[a][1] \notin Letter)
        /\ \A k \in 1 .. (b - 1) : words[k][1] \in Letter
    BY <1>6 DEF Fronted, N
  <2>2. a \in 1 .. (b - 1) /\ a # N
    BY <1>1, <1>6, <2>1
  <2> QED
    BY <2>1, <2>2
<1>7. ASSUME NEW a, NEW b, Fronted(words, a), Fronted(words, b) PROVE a = b
  <2>1. a \in 1 .. N /\ b \in 1 .. N
    BY <1>7 DEF Fronted, N
  <2>2. ~(a < b) /\ ~(b < a)
    BY <1>6, <1>7
  <2> QED
    BY <2>1, <2>2
<1> QED
  BY <1>5, <1>7

\* The version that the token at place n is cut down to; the words with it.
VersionAt(words, n) ==
    IF n <= Len(words) /\ words[n][1] \in Digit THEN coarsen_os_version_token(words[n]) ELSE <<>>
WithVersion(words, n) ==
    SubSeq(words, 1, n - 1) \o IF VersionAt(words, n) = <<>> THEN <<>> ELSE <<VersionAt(words, n)>>

\* coarsen_os keeps the words in front, and the version behind them.
LEMMA OsIs ==
    ASSUME NEW raw, NEW words, words = Filled(Split(raw, {" "})), IsSequence(words), NEW n, Fronted(words, n)
    PROVE  coarsen_os(raw) = Spaced(WithVersion(words, n))
<1> DEFINE W == Filled(Split(raw, {" "}))
           Stop(m) == /\ \A k \in 1 .. (m - 1) : W[k][1] \in Letter
                      /\ m = Len(W) + 1 \/ W[m][1] \notin Letter
           stop == CHOOSE m \in 1 .. (Len(W) + 1) : Stop(m)
<1>1. coarsen_os(raw) = Spaced(WithVersion(W, stop))
  BY DEF coarsen_os, WithVersion, VersionAt
<1>2. W = words
  OBVIOUS
<1> HIDE DEF W
<1>3. n \in 1 .. (Len(W) + 1) /\ Stop(n)
  BY <1>2 DEF Fronted
<1>4. Fronted(W, stop)
  <2>1. stop \in 1 .. (Len(W) + 1) /\ Stop(stop)
    <3> HIDE DEF Stop
    <3> QED
      BY <1>3
  <2> HIDE DEF stop
  <2> QED
    BY <2>1 DEF Fronted
<1> HIDE DEF stop
<1>5. stop = n
  BY <1>2, <1>4, FrontEnds
<1> QED
  BY <1>1, <1>2, <1>5

\* Words of which each begins with a letter, but the last one may be a version.
Front(words) ==
    /\ AreWords(words) /\ words # <<>>
    /\ \A k \in 1 .. Len(words) : words[k][1] \in Letter \/ (k = Len(words) /\ VersionWord(words[k]))

\* The words in front of a place, and the version there: words again.
LEMMA WithVersionIs ==
    ASSUME NEW words, AreWords(words), NEW n, Fronted(words, n), NEW w, w = WithVersion(words, n), w # <<>>
    PROVE  Front(w)
<1> DEFINE u == SubSeq(words, 1, n - 1)
           l == n - 1
           v == VersionAt(words, n)
<1>1. /\ IsSequence(words) /\ DOMAIN words = 1 .. Len(words) /\ Len(words) \in Nat
      /\ \A k \in DOMAIN words : /\ IsSequence(words[k]) /\ words[k] # <<>>
                                 /\ \A i \in DOMAIN words[k] : words[k][i] # " "
  BY LenProperties DEF AreWords, IsSequence
<1>2. n \in 1 .. (Len(words) + 1) /\ \A k \in 1 .. l : words[k][1] \in Letter
  BY DEF Fronted
<1>3. l \in Nat /\ l <= Len(words) /\ \A k \in 1 .. l : k \in DOMAIN words
  <2> DEFINE a == Len(words)
  <2>1. a \in Nat /\ n \in 1 .. (a + 1) /\ DOMAIN words = 1 .. a
    BY <1>1, <1>2
  <2> HIDE DEF a
  <2>2. l \in Nat /\ l <= a /\ \A k \in 1 .. l : k \in 1 .. a
    BY <2>1
  <2> QED
    BY <2>1, <2>2 DEF a
<1>4. IsSequence(u) /\ Len(u) = l /\ DOMAIN u = 1 .. l /\ \A i \in 1 .. l : u[i] = words[i]
  <2>1. u = SubSeq(words, 1, l)
    OBVIOUS
  <2>2. IsSequence(words)
    BY <1>1
  <2> HIDE DEF u, l
  <2> QED
    BY <1>3, <2>1, <2>2, FirstOnes
<1>5. w = u \o IF v = <<>> THEN <<>> ELSE <<v>>
  BY DEF WithVersion
<1> HIDE DEF u
<1>6. \A k \in 1 .. l : /\ IsSequence(u[k]) /\ u[k] # <<>> /\ u[k][1] \in Letter
                        /\ \A i \in DOMAIN u[k] : u[k][i] # " "
  BY <1>1, <1>2, <1>3, <1>4
<1>7. CASE v = <<>>
  <2>1. w = u
    <3>1. u \in Seq(Elems(u))
      BY <1>4 DEF IsSequence
    <3>2. u \o <<>> = u
      BY <3>1, ConcatEmptySeq
    <3> QED
      BY <1>5, <1>7, <3>2
  <2> HIDE DEF l, v
  <2> QED
    BY <1>4, <1>6, <2>1 DEF Front, AreWords
<1>8. CASE v # <<>>
  <2>1. VersionWord(v)
    <3>1. n <= Len(words) /\ v = coarsen_os_version_token(words[n])
      BY <1>8 DEF VersionAt
    <3>2. n \in DOMAIN words
      <4> DEFINE a == Len(words)
      <4>1. n \in 1 .. (a + 1) /\ n <= a /\ a \in Nat
        BY <1>1, <1>2, <3>1
      <4> HIDE DEF a
      <4>2. n \in 1 .. a
        BY <4>1
      <4> QED
        BY <1>1, <4>2 DEF a
    <3>3. IsSequence(words[n])
      BY <1>1, <3>2
    <3> QED
      BY <1>8, <3>1, <3>3, TokenIs
  <2> HIDE DEF v
  <2>2. w = u \o <<v>>
    BY <1>5, <1>8
  <2> HIDE DEF l
  <2>3. /\ IsSequence(w) /\ Len(w) = l + 1 /\ DOMAIN w = 1 .. (l + 1)
        /\ \A i \in 1 .. l : w[i] = u[i]
        /\ w[l + 1] = v
    <3>1. IsSequence(u) /\ Len(u) = l
      BY <1>4
    <3>2. /\ IsSequence(w) /\ Len(w) = Len(u) + 1 /\ DOMAIN w = 1 .. (Len(u) + 1)
          /\ \A i \in 1 .. Len(u) : w[i] = u[i]
          /\ w[Len(u) + 1] = v
      <4>1. Longer(u, v, w)
        BY <2>2, <3>1, WithOneMore
      <4> QED
        BY <4>1 DEF Longer
    <3> QED
      BY <3>1, <3>2
  <2>4. IsSequence(v) /\ v # <<>> /\ \A i \in DOMAIN v : v[i] # " "
    BY <2>1 DEF VersionWord
  <2>5. \A k : k \in 1 .. (l + 1) <=> k \in 1 .. l \/ k = l + 1
    BY <1>3
  <2>6. AreWords(w)
    <3>1. ASSUME NEW k \in DOMAIN w
          PROVE  IsSequence(w[k]) /\ w[k] # <<>> /\ \A i \in DOMAIN w[k] : w[k][i] # " "
      <4>1. CASE k \in 1 .. l
        BY <1>6, <2>3, <4>1
      <4>2. CASE k = l + 1
        BY <2>3, <2>4, <4>2
      <4> QED
        BY <2>3, <2>5, <4>1, <4>2
    <3> QED
      BY <2>3, <3>1 DEF AreWords
  <2>7. ASSUME NEW k \in 1 .. Len(w) PROVE w[k][1] \in Letter \/ (k = Len(w) /\ VersionWord(w[k]))
    BY <1>6, <2>1, <2>3, <2>5
  <2> QED
    BY <2>6, <2>7 DEF Front
<1> QED
  BY <1>7, <1>8

\* Nothing spaced is nothing.
LEMMA SpacedNothing ==
    ASSUME NEW words, words = <<>>
    PROVE  Spaced(words) = <<>>
<1> DEFINE F == [i \in DOMAIN words |-> (IF i = 1 THEN <<>> ELSE <<" ">>) \o words[i]]
           S == {}
           N == 0
<1>1. F \in [1 .. N -> Seq(S)] /\ N \in Nat
  <2>1. DOMAIN words = {} /\ 1 .. N = {}
    OBVIOUS
  <2> QED
    BY <2>1
<1> HIDE DEF F, S, N
<1>2. PICK f : Flat(f, N, F, S, Ext!FlattenSeq(F))
  BY <1>1, FlatIs
<1>3. Ext!FlattenSeq(F) = f[N] /\ f[0] = <<>>
  BY <1>2 DEF Flat, Grows
<1> QED
  BY <1>3 DEF Spaced, F, N

\* The name of an operating system is cut down to such words (quasi.rs:153).
LEMMA OsWords ==
    ASSUME NEW raw, IsSequence(raw), coarsen_os(raw) # <<>>
    PROVE  \E words : Front(words) /\ coarsen_os(raw) = Spaced(words)
<1> DEFINE words == Filled(Split(raw, {" "}))
<1>1. AreWords(words)
  BY FilledWords
<1>2. IsSequence(words)
  BY <1>1 DEF AreWords
<1>3. PICK n : Fronted(words, n)
  BY <1>2, FrontEnds
<1>4. coarsen_os(raw) = Spaced(WithVersion(words, n))
  BY <1>2, <1>3, OsIs
<1>5. WithVersion(words, n) # <<>>
  BY <1>4, SpacedNothing
<1> HIDE DEF words
<1>6. Front(WithVersion(words, n))
  BY <1>1, <1>3, <1>5, WithVersionIs
<1> QED
  BY <1>4, <1>6

\* And it stays what it is when it is cut down again.
LEMMA OsAgain ==
    ASSUME NEW words, Front(words), NEW v, v = Spaced(words)
    PROVE  coarsen_os(v) = v /\ Split(v, {" "}) = words
<1> DEFINE N == Len(words)
<1>1. /\ AreWords(words) /\ words # <<>>
      /\ \A k \in 1 .. Len(words) : words[k][1] \in Letter \/ (k = Len(words) /\ VersionWord(words[k]))
  BY DEF Front
<1>2. Split(v, {" "}) = words /\ Filled(words) = words
  BY <1>1, SpacedSplits
<1>3. IsSequence(words) /\ N \in Nat /\ N # 0 /\ DOMAIN words = 1 .. N /\ words \in Seq(Elems(words))
  BY <1>1, LenProperties, EmptySeq DEF AreWords, IsSequence
<1>4. \A n : Fronted(words, n) => coarsen_os(v) = Spaced(WithVersion(words, n))
  BY <1>2, <1>3, OsIs
<1>5. CASE words[N][1] \in Letter
  <2> DEFINE n == N + 1
  <2>0. n \in 1 .. (N + 1) /\ n - 1 = N /\ ~(n <= N)
    BY <1>3
  <2>1. Fronted(words, n)
    <3>1. \A k \in 1 .. N : words[k][1] \in Letter
      BY <1>1, <1>5
    <3> HIDE DEF n
    <3>2. \A k \in 1 .. (n - 1) : words[k][1] \in Letter
      BY <2>0, <3>1
    <3>3. n = Len(words) + 1
      BY DEF n
    <3> QED
      BY <2>0, <3>2, <3>3 DEF Fronted
  <2> HIDE DEF n
  <2>2. VersionAt(words, n) = <<>>
    BY <2>0 DEF VersionAt
  <2>3. WithVersion(words, n) = SubSeq(words, 1, N) \o <<>>
    BY <2>0, <2>2 DEF WithVersion
  <2>4. SubSeq(words, 1, N) = words /\ words \o <<>> = words
    BY <1>3, SubSeqFull, ConcatEmptySeq
  <2> QED
    BY <1>2, <1>4, <2>1, <2>3, <2>4
<1>6. CASE words[N][1] \notin Letter
  <2> DEFINE u == SubSeq(words, 1, N - 1)
             l == N - 1
  <2>0. N \in 1 .. (N + 1) /\ N \in 1 .. N /\ N <= N /\ l \in Nat /\ l <= N /\ l + 1 = N
    BY <1>3
  <2>1. VersionWord(words[N])
    BY <1>1, <1>6, <2>0
  <2>2. words[N][1] \in Digit /\ words[N] # <<>> /\ coarsen_os_version_token(words[N]) = words[N]
    BY <2>1 DEF VersionWord
  <2>3. Fronted(words, N)
    <3>1. \A k \in 1 .. (N - 1) : k \in 1 .. N /\ k # N
      <4> HIDE DEF N
      <4> QED
        BY <1>3
    <3>2. \A k \in 1 .. (N - 1) : words[k][1] \in Letter
      BY <1>1, <3>1
    <3> QED
      BY <1>6, <2>0, <3>2 DEF Fronted
  <2>4. VersionAt(words, N) = words[N]
    BY <2>0, <2>2 DEF VersionAt
  <2>5. WithVersion(words, N) = u \o <<words[N]>>
    BY <2>2, <2>4 DEF WithVersion
  <2>6. IsSequence(u) /\ Len(u) = l /\ \A i \in 1 .. l : u[i] = words[i]
    <3>1. u = SubSeq(words, 1, l) /\ l <= Len(words)
      BY <2>0
    <3> HIDE DEF u, l
    <3> QED
      <4>1. IsSequence(words) /\ l \in Nat
        BY <1>3, <2>0
      <4>2. IsSequence(u) /\ Len(u) = l /\ DOMAIN u = 1 .. l /\ \A i \in 1 .. l : u[i] = words[i]
        <5> HIDE DEF N
        <5>1. l <= Len(words)
          BY <3>1
        <5>2. LET t == SubSeq(words, 1, l) IN
              IsSequence(t) /\ Len(t) = l /\ DOMAIN t = 1 .. l /\ \A i \in 1 .. l : t[i] = words[i]
          BY <4>1, <5>1, FirstOnes
        <5> QED
          BY <3>1, <5>2
      <4> QED
        BY <4>2
  <2> DEFINE x == words[N]
             w == u \o <<x>>
  <2> HIDE DEF u, x, l
  <2>7. IsSequence(w) /\ Len(w) = l + 1 /\ (\A i \in 1 .. l : w[i] = u[i]) /\ w[l + 1] = x
    <3>1. IsSequence(u) /\ Len(u) = l /\ w = u \o <<x>>
      BY <2>6
    <3> HIDE DEF w
    <3>2. /\ IsSequence(w) /\ Len(w) = Len(u) + 1
          /\ \A i \in 1 .. Len(u) : w[i] = u[i]
          /\ w[Len(u) + 1] = x
      <4>1. Longer(u, x, w)
        BY <3>1, WithOneMore
      <4> QED
        BY <4>1 DEF Longer
    <3> QED
      BY <3>1, <3>2
  <2> HIDE DEF w
  <2>8. w = words
    <3>1. ASSUME NEW i \in 1 .. Len(w) PROVE w[i] = words[i]
      <4>1. CASE i \in 1 .. l
        BY <2>6, <2>7, <4>1
      <4>2. CASE i = l + 1
        BY <2>0, <2>7, <4>2 DEF x
      <4>3. i \in 1 .. l \/ i = l + 1
        BY <2>0, <2>7
      <4> QED
        BY <4>1, <4>2, <4>3
    <3>2. Len(w) = Len(words)
      BY <2>0, <2>7
    <3>3. w \in Seq(Elems(w) \cup Elems(words)) /\ words \in Seq(Elems(w) \cup Elems(words))
      <4>1. w \in Seq(Elems(w))
        BY <2>7 DEF IsSequence
      <4> QED
        BY <1>3, <4>1, SeqMonotonic
    <3> QED
      BY <3>1, <3>2, <3>3, SeqEqual
  <2>9. WithVersion(words, N) = words
    BY <2>5, <2>8 DEF w, x
  <2> QED
    BY <1>2, <1>4, <2>3, <2>9
<1> QED
  BY <1>5, <1>6

-----------------------------------------------------------------------------
(* What is found under an allowed key.                                        *)

\* A text without a separator is one word.
LEMMA OneWordOnly ==
    ASSUME NEW class, NEW v, IsSequence(v), \A i \in DOMAIN v : v[i] \notin class,
           NEW words, words = Split(v, class)
    PROVE  Len(words) = 1 /\ DOMAIN words = {1} /\ words[1] = v
<1>1. words = [k \in 1 .. 1 |-> v]
  BY NotCut
<1>2. 1 .. 1 = {1}
  OBVIOUS
<1>3. DOMAIN words = 1 .. 1 /\ words[1] = v
  BY <1>1
<1>4. Len(words) = 1
  BY <1>1
<1> QED
  BY <1>2, <1>3, <1>4

\* A version that is kept is coarse.
LEMMA VersionCoarse ==
    ASSUME NEW raw, IsSequence(raw), NEW v, v = coarsen_version(raw), v # <<>>
    PROVE  CoarseValue("app_version", v)
<1>1. PICK M, m : MajorMinor(v, M, m)
  BY VersionIs
<1>2. CutAtDot(v, M, m) /\ VersionWord(v) /\ coarsen_version(v) = v
  BY <1>1, Dotted, DottedWord
<1>3. IsSequence(v) /\ v # <<>> /\ Version(v) /\ \A i \in DOMAIN v : v[i] # " "
  BY <1>2 DEF VersionWord
<1> DEFINE blank == {" "}
           words == Split(v, blank)
<1>4. Len(words) = 1 /\ DOMAIN words = {1} /\ words[1] = v
  <2>1. IsSequence(v)
    BY <1>3
  <2>2. \A i \in DOMAIN v : v[i] \notin blank
    BY <1>3
  <2>3. words = Split(v, blank)
    OBVIOUS
  <2> HIDE DEF blank, words
  <2> QED
    BY <2>1, <2>2, <2>3, OneWordOnly
<1>5. v = Coarsened("app_version", v)
  BY <1>2 DEF Coarsened
<1> HIDE DEF words
<1>6. \A n \in DOMAIN words : words[n][1] \in Digit => n = Len(words) /\ Version(words[n])
  BY <1>3, <1>4
<1> QED
  BY <1>3, <1>4, <1>5, <1>6 DEF CoarseValue, words

\* So is the name of an operating system.
LEMMA OsCoarse ==
    ASSUME NEW raw, IsSequence(raw), NEW v, v = coarsen_os(raw), v # <<>>
    PROVE  CoarseValue("os", v)
<1>1. PICK W : Front(W) /\ v = Spaced(W)
  BY OsWords
<1>2. coarsen_os(v) = v /\ Split(v, {" "}) = W
  BY <1>1, OsAgain
<1>3. /\ IsSequence(W)
      /\ \A k \in 1 .. Len(W) : W[k][1] \in Letter \/ (k = Len(W) /\ VersionWord(W[k]))
  BY <1>1 DEF Front, AreWords
<1>4. \A n \in DOMAIN W : W[n][1] \in Digit => n = Len(W) /\ Version(W[n])
  <2> TAKE n \in DOMAIN W
  <2> SUFFICES ASSUME W[n][1] \in Digit PROVE n = Len(W) /\ Version(W[n])
    OBVIOUS
  <2>1. n \in 1 .. Len(W)
    BY <1>3, LenProperties DEF IsSequence
  <2>2. W[n][1] \notin Letter
    BY QuasiAssumption
  <2> QED
    BY <1>3, <2>1, <2>2 DEF VersionWord
<1>5. v = Coarsened("os", v)
  BY <1>2 DEF Coarsened
<1> DEFINE words == Split(v, {" "})
<1>6. words = W
  BY <1>2
<1> HIDE DEF words
<1>7. \A n \in DOMAIN words : words[n][1] \in Digit => n = Len(words) /\ Version(words[n])
  BY <1>4, <1>6
<1> QED
  BY <1>5, <1>7 DEF CoarseValue, words

\* And a language.
LEMMA LocaleCoarse ==
    ASSUME NEW raw, IsSequence(raw), NEW v, v = coarsen_locale(raw), v # <<>>
    PROVE  CoarseValue("locale", v)
<1> DEFINE class == {"-", "_", "."}
           lang == Trim(First(Trim(raw), class))
<1>1. IsSequence(lang)
  <2>1. IsSequence(Trim(raw))
    BY Trims
  <2> HIDE DEF class
  <2>2. IsSequence(First(Trim(raw), class))
    BY <2>1, PartsAre
  <2> QED
    BY <2>2, Trims
<1>2. v = IF AllIn(lang, Letter) THEN [i \in DOMAIN lang |-> Fold(lang[i])] ELSE <<>>
  BY DEF coarsen_locale
<1> HIDE DEF lang
<1>3. \A i \in DOMAIN lang : lang[i] \in Letter
  BY <1>2 DEF AllIn
<1>4. v = [i \in DOMAIN lang |-> Fold(lang[i])]
  BY <1>2
<1>5. \A i \in DOMAIN v : v[i] \in Letter /\ Fold(v[i]) = v[i]
  BY <1>3, <1>4, QuasiAssumption
<1>6. IsSequence(v)
  <2>1. DOMAIN lang = 1 .. Len(lang) /\ Len(lang) \in Nat
    BY <1>1, LenProperties DEF IsSequence
  <2>2. v \in [1 .. Len(lang) -> Letter]
    BY <1>4, <1>5, <2>1
  <2>3. v \in Seq(Letter)
    BY <2>1, <2>2, SeqDef
  <2> QED
    BY <2>3, IsSequenceOf
<1>7. \A x \in Letter : x \notin Digit /\ x \notin {" ", "-", "_", "."}
  BY QuasiAssumption
<1>8. (\A i \in DOMAIN v : v[i] # " ") /\ \A i \in DOMAIN v : v[i] \notin class
  BY <1>5, <1>7
<1>9. Trim(v) = v
  BY <1>6, <1>8, Trims
<1> HIDE DEF class
<1>10. First(v, class) = v
  BY <1>6, <1>8, NotCut
<1>11. coarsen_locale(v) = IF AllIn(v, Letter) THEN [i \in DOMAIN v |-> Fold(v[i])] ELSE <<>>
  <2>1. Trim(First(Trim(v), class)) = v
    BY <1>9, <1>10
  <2>2. coarsen_locale(v) = LET l == Trim(First(Trim(v), class)) IN
                             IF AllIn(l, Letter) THEN [i \in DOMAIN l |-> Fold(l[i])] ELSE <<>>
    BY DEF coarsen_locale, class
  <2> QED
    BY <2>1, <2>2
<1>12. coarsen_locale(v) = v
  <2>1. AllIn(v, Letter)
    BY <1>5 DEF AllIn
  <2>2. [i \in DOMAIN v |-> Fold(v[i])] = [i \in DOMAIN v |-> v[i]]
    BY <1>5
  <2>3. v = [i \in DOMAIN v |-> v[i]]
    BY <1>4
  <2> QED
    BY <1>11, <2>1, <2>2, <2>3
<1>13. v = Coarsened("locale", v)
  BY <1>12 DEF Coarsened
<1> DEFINE blank == {" "}
           words == Split(v, blank)
<1>14. Len(words) = 1 /\ DOMAIN words = {1} /\ words[1] = v
  <2>1. IsSequence(v)
    BY <1>6
  <2>2. \A i \in DOMAIN v : v[i] \notin blank
    BY <1>8
  <2>3. words = Split(v, blank)
    OBVIOUS
  <2> HIDE DEF blank, words
  <2> QED
    BY <2>1, <2>2, <2>3, OneWordOnly
<1> HIDE DEF words
<1>15. v[1] \notin Digit
  <2>1. DOMAIN v = 1 .. Len(v) /\ Len(v) \in Nat /\ Len(v) # 0
    BY <1>6, LenProperties, EmptySeq DEF IsSequence
  <2>2. 1 \in DOMAIN v
    BY <2>1
  <2> QED
    BY <1>5, <1>7, <2>2
<1>16. \A n \in DOMAIN words : words[n][1] \in Digit => n = Len(words) /\ Version(words[n])
  BY <1>14, <1>15
<1> QED
  BY <1>5, <1>13, <1>16 DEF CoarseValue, words

\* Metadata as a host attaches it: texts, each under a key.
IsMetadata(metadata) == IsSequence(metadata) /\ \A i \in DOMAIN metadata : IsSequence(metadata[i][2])

\* What is found under an allowed key is coarse.
LEMMA FoundCoarse ==
    ASSUME NEW metadata, IsMetadata(metadata), NEW key \in {"app_version", "os", "locale"},
           Found(metadata, key) # <<>>
    PROVE  CoarseValue(key, Found(metadata, key))
<1> DEFINE at == {i \in DOMAIN metadata : Fold(metadata[i][1]) = key}
           c == CHOOSE i \in at : \A j \in at : i <= j
           raw == metadata[c][2]
           v == Found(metadata, key)
           N == Len(metadata)
<1>1. v = IF at = {} THEN <<>> ELSE Coarsened(key, raw)
  BY DEF Found
<1>2. N \in Nat /\ at \subseteq 1 .. N /\ at # {}
  <2>1. N \in Nat /\ DOMAIN metadata = 1 .. N
    BY LenProperties DEF IsMetadata, IsSequence
  <2> QED
    BY <1>1, <2>1
<1>3. c \in at
  <2> HIDE DEF at, N
  <2>1. \E i \in at : \A j \in at : i <= j
    BY <1>2, FirstPlace
  <2> QED
    BY <2>1
<1>4. IsSequence(raw)
  <2> HIDE DEF c
  <2> QED
    BY <1>3 DEF IsMetadata
<1>5. v = Coarsened(key, raw) /\ v # <<>>
  BY <1>1, <1>2
<1> HIDE DEF raw, v, at
<1>6. CASE key = "app_version"
  <2>1. v = coarsen_version(raw)
    BY <1>5, <1>6 DEF Coarsened
  <2> QED
    BY <1>4, <1>5, <1>6, <2>1, VersionCoarse DEF v
<1>7. CASE key = "os"
  <2>1. v = coarsen_os(raw)
    BY <1>5, <1>7 DEF Coarsened
  <2> QED
    BY <1>4, <1>5, <1>7, <2>1, OsCoarse DEF v
<1>8. CASE key = "locale"
  <2>1. v = coarsen_locale(raw)
    BY <1>5, <1>8 DEF Coarsened
  <2> QED
    BY <1>4, <1>5, <1>8, <2>1, LocaleCoarse DEF v
<1> QED
  BY <1>6, <1>7, <1>8

\* Fields in the order of the allowlist, each from its own place r there.
InOrder(extra, metadata, r) ==
    /\ \A n \in DOMAIN extra :
          /\ r[n] \in 1 .. 3
          /\ extra[n] = <<ALLOWED_FIELDS[r[n]], Found(metadata, ALLOWED_FIELDS[r[n]])>>
          /\ Found(metadata, ALLOWED_FIELDS[r[n]]) # <<>>
    /\ \A m, n \in DOMAIN extra : m < n => r[m] < r[n]

\* safe_fields puts them so (quasi.rs:219).
LEMMA FieldsInOrder ==
    ASSUME NEW metadata, NEW extra, extra = safe_fields(metadata)
    PROVE  \E r : InOrder(extra, metadata, r)
<1> DEFINE A == ALLOWED_FIELDS
           N == 3
           V(k) == Found(metadata, A[k])
           F == [k \in DOMAIN A |-> IF V(k) = <<>> THEN <<>> ELSE <<<<A[k], V(k)>>>>]
           S == {<<A[k], V(k)>> : k \in 1 .. N}
<1>1. extra = Ext!FlattenSeq(F)
  BY DEF safe_fields
<1>2. DOMAIN A = 1 .. N /\ N \in Nat
  BY DEF ALLOWED_FIELDS
<1>3. \A k \in 1 .. N : F[k] = IF V(k) = <<>> THEN <<>> ELSE <<<<A[k], V(k)>>>>
  BY <1>2
<1>4. F = [k \in 1 .. N |-> F[k]]
  BY <1>2
<1>5. \A k \in 1 .. N : <<A[k], V(k)>> \in S
  OBVIOUS
<1> HIDE DEF F, N, A, S
<1>6. ASSUME NEW k \in 1 .. N
      PROVE  /\ F[k] \in Seq(S)
             /\ V(k) = <<>> => Len(F[k]) = 0
             /\ V(k) # <<>> => Len(F[k]) = 1 /\ F[k][1] = <<A[k], V(k)>>
  <2> DEFINE y == <<A[k], V(k)>>
  <2>1. y \in S /\ F[k] = IF V(k) = <<>> THEN <<>> ELSE <<y>>
    BY <1>3, <1>5
  <2> HIDE DEF y, V
  <2>2. <<y>> \in Seq(S) /\ Len(<<y>>) = 1 /\ <<y>>[1] = y
    BY <2>1
  <2>3. <<>> \in Seq(S) /\ Len(<<>>) = 0
    OBVIOUS
  <2>4. CASE V(k) = <<>>
    BY <2>1, <2>3, <2>4
  <2>5. CASE V(k) # <<>>
    <3>1. F[k] = <<y>>
      BY <2>1, <2>5
    <3> QED
      BY <2>2, <2>5, <3>1 DEF y
  <2> QED
    BY <2>4, <2>5
<1> HIDE DEF V
<1>7. F \in [1 .. N -> Seq(S)]
  BY <1>4, <1>6
<1>8. PICK f : Flat(f, N, F, S, extra)
  BY <1>1, <1>2, <1>7, FlatIs
<1>9. /\ extra \in Seq(S) /\ Len(extra) \in Nat /\ extra = f[N]
      /\ \A n \in 0 .. N : Len(f[n]) \in Nat
      /\ \A n \in 1 .. N : Len(f[n]) = Len(f[n - 1]) + Len(F[n])
      /\ \A n \in 0 .. N : \A m \in 0 .. n : Len(f[m]) <= Len(f[n])
      /\ \A n \in 1 .. N : \A i \in 1 .. Len(F[n]) : f[N][Len(f[n - 1]) + i] = F[n][i]
      /\ \A j \in 1 .. Len(extra) : \E n \in 1 .. N : \E i \in 1 .. Len(F[n]) : j = Len(f[n - 1]) + i
  BY <1>8 DEF Flat, Grows
<1>10. DOMAIN extra = 1 .. Len(extra)
  BY <1>9, LenProperties
<1> DEFINE At(n, k) == k \in 1 .. N /\ V(k) # <<>> /\ n = Len(f[k])
           r == [n \in DOMAIN extra |-> CHOOSE k : At(n, k)]
<1>11. ASSUME NEW n \in DOMAIN extra
       PROVE  \E k : At(n, k)
  <2>1. PICK k \in 1 .. N : \E i \in 1 .. Len(F[k]) : n = Len(f[k - 1]) + i
    BY <1>9, <1>10
  <2>2. PICK i \in 1 .. Len(F[k]) : n = Len(f[k - 1]) + i
    BY <2>1
  <2>3. V(k) # <<>>
    BY <1>6, <2>2
  <2>4. Len(F[k]) = 1
    BY <1>6, <2>3
  <2>5. i = 1
    BY <2>2, <2>4
  <2>6. n = Len(f[k])
    BY <1>9, <2>2, <2>4, <2>5
  <2> QED
    BY <2>3, <2>6
<1>12. ASSUME NEW n \in DOMAIN extra, NEW k, At(n, k)
       PROVE  extra[n] = <<A[k], V(k)>>
  <2>1. Len(F[k]) = 1 /\ F[k][1] = <<A[k], V(k)>> /\ 1 \in 1 .. Len(F[k])
    BY <1>6, <1>12
  <2>2. f[N][Len(f[k - 1]) + 1] = F[k][1]
    BY <1>9, <1>12, <2>1
  <2>3. n = Len(f[k - 1]) + 1
    BY <1>9, <1>12, <2>1
  <2> QED
    BY <1>9, <2>1, <2>2, <2>3
<1>13. ASSUME NEW m \in DOMAIN extra, NEW n \in DOMAIN extra, m < n, NEW j, NEW k, At(m, j), At(n, k)
       PROVE  j < k
  <2> SUFFICES ASSUME ~(j < k) PROVE FALSE
    OBVIOUS
  <2>1. j \in 0 .. N /\ k \in 0 .. j
    BY <1>2, <1>13
  <2>2. Len(f[k]) <= Len(f[j])
    BY <1>9, <2>1
  <2>3. n <= m
    BY <1>13, <2>2
  <2> QED
    BY <1>10, <1>13, <2>3
<1> HIDE DEF At
<1>14. \A n \in DOMAIN extra : At(n, r[n])
  BY <1>11
<1> HIDE DEF r
<1>15. ASSUME NEW n \in DOMAIN extra
       PROVE  r[n] \in 1 .. N /\ V(r[n]) # <<>> /\ extra[n] = <<A[r[n]], V(r[n])>>
  <2>1. At(n, r[n])
    BY <1>14
  <2>2. extra[n] = <<A[r[n]], V(r[n])>>
    BY <1>12, <2>1
  <2> QED
    BY <2>1, <2>2 DEF At
<1>16. ASSUME NEW m \in DOMAIN extra, NEW n \in DOMAIN extra, m < n PROVE r[m] < r[n]
  <2>1. At(m, r[m]) /\ At(n, r[n])
    BY <1>14
  <2> QED
    BY <1>13, <1>16, <2>1
<1>17. InOrder(extra, metadata, r)
  BY <1>15, <1>16 DEF InOrder, V, A, N
<1> QED
  BY <1>17

\* What the event says of the metadata: coarse values, under keys that rise in the allowlist.
Coarse(extra) ==
    LET Rank(n) == CHOOSE k \in DOMAIN ALLOWED_FIELDS : ALLOWED_FIELDS[k] = extra[n][1]
    IN /\ \A n \in DOMAIN extra : CoarseValue(extra[n][1], extra[n][2])
       /\ \A m, n \in DOMAIN extra : m < n => Rank(m) < Rank(n)

\* safe_fields leaves nothing else.
LEMMA SafeFieldsCoarse ==
    ASSUME NEW metadata, IsMetadata(metadata), NEW extra, extra = safe_fields(metadata)
    PROVE  Coarse(extra)
<1> DEFINE Rank(n) == CHOOSE k \in DOMAIN ALLOWED_FIELDS : ALLOWED_FIELDS[k] = extra[n][1]
           A == ALLOWED_FIELDS
<1>1. PICK r : InOrder(extra, metadata, r)
  BY FieldsInOrder
<1>2. /\ DOMAIN A = 1 .. 3 /\ A[1] = "app_version" /\ A[2] = "os" /\ A[3] = "locale"
  BY DEF ALLOWED_FIELDS
<1>3. \A i : i \in 1 .. 3 <=> i = 1 \/ i = 2 \/ i = 3
  OBVIOUS
<1>4. /\ \A k \in 1 .. 3 : A[k] \in {"app_version", "os", "locale"}
      /\ \A j, k \in 1 .. 3 : A[j] = A[k] => j = k
  <2> HIDE DEF A
  <2> QED
    BY <1>2, <1>3
<1>5. ASSUME NEW n \in DOMAIN extra
      PROVE  /\ r[n] \in 1 .. 3 /\ extra[n][1] = A[r[n]] /\ extra[n][2] = Found(metadata, A[r[n]])
             /\ Found(metadata, A[r[n]]) # <<>>
  BY <1>1 DEF InOrder
<1>6. ASSUME NEW n \in DOMAIN extra PROVE CoarseValue(extra[n][1], extra[n][2])
  <2> DEFINE key == A[r[n]]
  <2>1. key \in {"app_version", "os", "locale"} /\ Found(metadata, key) # <<>>
    BY <1>4, <1>5
  <2> HIDE DEF key
  <2>2. CoarseValue(key, Found(metadata, key))
    BY <2>1, FoundCoarse
  <2> QED
    BY <1>5, <2>2 DEF key
<1>7. ASSUME NEW n \in DOMAIN extra PROVE Rank(n) = r[n]
  <2>1. r[n] \in 1 .. 3 /\ A[r[n]] = extra[n][1]
    BY <1>5
  <2>2. \A k \in 1 .. 3 : A[k] = extra[n][1] => k = r[n]
    BY <1>4, <2>1
  <2>3. Rank(n) = CHOOSE k \in 1 .. 3 : A[k] = extra[n][1]
    BY <1>2
  <2> HIDE DEF Rank, A
  <2> QED
    BY <2>1, <2>2, <2>3
<1>8. \A m, n \in DOMAIN extra : m < n => r[m] < r[n]
  BY <1>1 DEF InOrder
<1> HIDE DEF Rank
<1>9. \A m, n \in DOMAIN extra : m < n => Rank(m) < Rank(n)
  BY <1>7, <1>8
<1> QED
  BY <1>6, <1>9 DEF Coarse, Rank

-----------------------------------------------------------------------------
(* What the bytes say of a report's metadata.                                 *)

\* A byte on the wire is one of a header line or a newline, or it is of a payload.
LEMMA OfPayload ==
    ASSUME NEW s, NEW list, NEW at, Layout(s, list, at), IsSequence(list),
           \A n \in DOMAIN list : IsItem(list[n]), NEW i \in 1 .. Len(s), s[i].t = "event"
    PROVE  \E n \in 1 .. Len(list) : \E j \in 1 .. Len(list[n].payload) : s[i] = list[n].payload[j]
<1> DEFINE N == Len(list)
           l(n) == Len(list[n].payload)
           In(x) == \E n \in 1 .. N : at[n] <= x /\ x < at[n + 1]
           P == {n \in Nat : n <= N => \A x \in 4 .. (at[n + 1] - 1) : In(x)}
<1>1. N \in Nat /\ DOMAIN list = 1 .. N /\ \A n \in 1 .. N : l(n) \in Nat
  <2>1. N \in Nat /\ DOMAIN list = 1 .. N
    BY LenProperties DEF IsSequence
  <2>2. \A n \in 1 .. N : IsSequence(list[n].payload)
    BY <2>1 DEF IsItem
  <2> QED
    BY <2>1, <2>2, LenProperties DEF IsSequence
<1>2. /\ Len(s) = at[N + 1] - 1 /\ at[1] = 4
      /\ \A n \in 1 .. (N + 1) : at[n] \in Nat /\ at[n] >= 4
      /\ s[1].t = "envelope" /\ s[2] = Close /\ s[3] = Newline
      /\ \A n \in 1 .. N :
           /\ at[n + 1] = at[n] + 4 + l(n)
           /\ s[at[n]] = ItemHeader(list[n]) /\ s[at[n] + 1] = Close /\ s[at[n] + 2] = Newline
           /\ \A j \in 1 .. l(n) : s[at[n] + 2 + j] = list[n].payload[j]
           /\ s[at[n] + 3 + l(n)] = Newline
  BY DEF Layout
<1> HIDE DEF N, l, In
<1>3. 0 \in P
  <2> DEFINE z == 0
  <2>1. z \in Nat /\ z + 1 = 1
    OBVIOUS
  <2>2. 4 .. (at[1] - 1) = {}
    BY <1>2
  <2> HIDE DEF z
  <2>3. \A x \in 4 .. (at[z + 1] - 1) : In(x)
    BY <2>1, <2>2
  <2> QED
    BY <2>1, <2>3 DEF z
<1>4. ASSUME NEW n \in Nat, n \in P PROVE n + 1 \in P
  <2> DEFINE k == n + 1
  <2>1. k \in Nat
    OBVIOUS
  <2> HIDE DEF k
  <2>2. ASSUME k <= N, NEW x \in 4 .. (at[k + 1] - 1) PROVE In(x)
    <3>1. k \in 1 .. N /\ n <= N /\ k + 1 \in 1 .. (N + 1) /\ k \in 1 .. (N + 1)
      BY <1>1, <2>2 DEF k
    <3>2. at[k] \in Nat /\ at[k + 1] \in Nat
      BY <1>2, <3>1
    <3>3. \A y \in 4 .. (at[k] - 1) : In(y)
      BY <1>4, <3>1 DEF k
    <3>4. CASE x < at[k]
      <4>1. x \in 4 .. (at[k] - 1)
        BY <3>2, <3>4
      <4> QED
        BY <3>3, <4>1
    <3>5. CASE ~(x < at[k])
      <4>1. at[k] <= x /\ x < at[k + 1]
        BY <3>2, <3>5
      <4> QED
        BY <3>1, <4>1 DEF In
    <3> QED
      BY <3>4, <3>5
  <2> QED
    BY <2>1, <2>2 DEF k
<1> HIDE DEF P
<1>5. N \in P
  BY <1>1, <1>3, <1>4, Induction
<1>6. \A x \in 4 .. (at[N + 1] - 1) : In(x)
  BY <1>1, <1>5 DEF P
<1>7. Close.t # "event" /\ Newline.t # "event" /\ \A item : ItemHeader(item).t # "event"
  <2>1. \A item : ItemHeader(item).t = "item"
    BY HeaderSays
  <2> QED
    BY <2>1 DEF Close, Newline
<1>8. i # 1 /\ i # 2 /\ i # 3
  <2>1. s[1].t # "event" /\ s[2].t # "event" /\ s[3].t # "event"
    BY <1>2, <1>7
  <2> QED
    BY <2>1
<1>9. N + 1 \in 1 .. (N + 1)
  BY <1>1
<1>10. i \in 4 .. (at[N + 1] - 1)
  <2>1. at[N + 1] \in Nat
    BY <1>2, <1>9
  <2> QED
    BY <1>2, <1>8, <2>1
<1>11. PICK n \in 1 .. N : at[n] <= i /\ i < at[n + 1]
  BY <1>6, <1>10 DEF In
<1> DEFINE a == at[n]
           b == l(n)
<1>12. a \in Nat /\ b \in Nat /\ at[n + 1] = a + 4 + b
  <2>1. n \in 1 .. (N + 1)
    BY <1>1
  <2> QED
    BY <1>1, <1>2, <2>1
<1>13. /\ s[a].t # "event" /\ s[a + 1].t # "event" /\ s[a + 2].t # "event" /\ s[a + 3 + b].t # "event"
       /\ \A j \in 1 .. b : s[a + 2 + j] = list[n].payload[j]
  <2>1. /\ s[a] = ItemHeader(list[n]) /\ s[a + 1] = Close /\ s[a + 2] = Newline
        /\ \A j \in 1 .. b : s[a + 2 + j] = list[n].payload[j]
        /\ s[a + 3 + b] = Newline
    BY <1>2
  <2> HIDE DEF a, b
  <2> QED
    BY <1>7, <2>1
<1>14. a <= i /\ i < a + 4 + b
  BY <1>11, <1>12
<1> HIDE DEF a, b
<1>15. i # a /\ i # a + 1 /\ i # a + 2 /\ i # a + 3 + b
  BY <1>13
<1> DEFINE j == i - (a + 2)
<1>16. j \in 1 .. b /\ a + 2 + j = i
  BY <1>12, <1>14, <1>15
<1> HIDE DEF j
<1>17. s[i] = list[n].payload[j] /\ j \in 1 .. Len(list[n].payload)
  BY <1>13, <1>16 DEF b, l
<1> QED
  BY <1>17 DEF N

\* The event of a report, as it goes out.
LEMMA EventSays ==
    ASSUME NEW rep, NEW p, p = EventItem(rep).payload
    PROVE  Len(p) = 2 /\ p[1].extra = safe_fields(rep.metadata) /\ p[2].t # "event"
<1> DEFINE e == [t |-> "event",
            level |-> IF rep.stream = "CrashReports" THEN "error" ELSE "info",
            message |-> rep.title, formatted |-> rep.body,
            extra |-> safe_fields(rep.metadata)]
<1>1. p = <<e, Close>>
  BY DEF EventItem, Item
<1>2. e.extra = safe_fields(rep.metadata)
  OBVIOUS
<1> HIDE DEF e
<1>3. Len(p) = 2 /\ p[1] = e /\ p[2] = Close
  BY <1>1
<1>4. Close.t # "event"
  BY DEF Close
<1> QED
  BY <1>2, <1>3, <1>4

\* Nothing that goes out of a report in the clear holds another event.
LEMMA OneEvent ==
    ASSUME OneCase, route # "issue", route # "sealed", NEW list \in Lists,
           NEW n \in DOMAIN list, NEW j \in 1 .. Len(list[n].payload), list[n].payload[j].t = "event"
    PROVE  list[n].payload[j].extra = safe_fields(report.metadata)
<1>0. /\ IsSequence(report.attachments)
      /\ \A i \in DOMAIN report.attachments : IsPayload(report.attachments[i].bytes)
  BY ReportAssumption DEF OneCase
<1>1. \A i \in DOMAIN report.attachments : IsSequence(report.attachments[i].bytes)
  BY <1>0 DEF IsPayload
<1>2. Put = PlainEnvelope.items
  BY DEF Put
<1>3. /\ IsSequence(Put) /\ Len(Put) = 1 + Len(report.attachments) /\ Len(report.attachments) \in Nat
      /\ Put[1] = EventItem(report)
      /\ \A i \in 1 .. Len(report.attachments) : Put[i + 1] = AttachmentItem(report.attachments[i])
      /\ \A i \in DOMAIN Put : IsItem(Put[i])
  BY <1>0, <1>1, <1>2, PlainItems DEF PlainEnvelope
<1>4. ASSUME NEW p, IsPayload(p), NEW k \in 1 .. Len(p) PROVE p[k].t # "event"
  BY <1>4, LenProperties DEF IsPayload, IsSequence
<1>5. DOMAIN Put = 1 .. Len(Put) /\ Len(Put) \in Nat /\ DOMAIN report.attachments = 1 .. Len(report.attachments)
  BY <1>0, <1>3, LenProperties DEF IsSequence
<1>6. ASSUME NEW i \in 1 .. Len(Put), NEW k \in 1 .. Len(Put[i].payload), Put[i].payload[k].t = "event"
      PROVE  Put[i].payload[k].extra = safe_fields(report.metadata)
  <2>1. CASE i = 1
    <3> DEFINE p == EventItem(report).payload
    <3>1. Len(p) = 2 /\ p[1].extra = safe_fields(report.metadata) /\ p[2].t # "event"
      BY EventSays
    <3>2. Put[i].payload = p
      BY <1>3, <2>1
    <3> HIDE DEF p
    <3>4. Len(Put[i].payload) = 2
      BY <3>1, <3>2
    <3>3. k = 1 \/ k = 2
      BY <3>4
    <3> QED
      BY <1>6, <3>1, <3>2, <3>3
  <2>2. CASE i # 1
    <3>1. i - 1 \in 1 .. Len(report.attachments) /\ (i - 1) + 1 = i
      BY <1>3, <2>2
    <3>2. Put[i] = AttachmentItem(report.attachments[i - 1])
      BY <1>3, <3>1
    <3>3. Put[i].payload = report.attachments[i - 1].bytes
      <4>1. \A att : AttachmentItem(att).payload = att.bytes
        BY DEF AttachmentItem, Item
      <4> QED
        BY <3>2, <4>1
    <3>4. IsPayload(Put[i].payload)
      BY <1>0, <1>5, <3>1, <3>3
    <3> QED
      BY <1>4, <1>6, <3>4
  <2> QED
    BY <2>1, <2>2
<1>7. CASE list = Put
  BY <1>5, <1>6, <1>7
<1>8. ASSUME NEW pad \in Pads, list = Append(Put, PadItem(pad))
      PROVE  list[n].payload[j].extra = safe_fields(report.metadata)
  <2>1. IsItem(PadItem(pad)) /\ IsPayload(pad)
    BY ReportAssumption, ItemsAreItems DEF IsPayload, PadItem
  <2>2. /\ Len(list) = Len(Put) + 1 /\ IsSequence(list)
        /\ \A m \in 1 .. Len(Put) : list[m] = Put[m]
        /\ list[Len(Put) + 1] = PadItem(pad)
    BY <1>3, <1>8, <2>1, OneMoreItem
  <2>3. DOMAIN list = 1 .. Len(Put) + 1
    BY <2>2, LenProperties DEF IsSequence
  <2>4. PadItem(pad).payload = pad
    BY DEF PadItem, Item
  <2>5. n # Len(Put) + 1
    BY <1>4, <2>1, <2>2, <2>4
  <2>6. n \in 1 .. Len(Put)
    BY <1>5, <2>3, <2>5
  <2> QED
    BY <1>6, <2>2, <2>6
<1> QED
  BY <1>7, <1>8 DEF Lists

\* So what the bytes say of a report's metadata is coarse.
LEMMA CoarseIs == ReadInv => CoarseOnly
<1> SUFFICES ASSUME ReadInv, outcome # "none", route # "issue", NEW i \in DOMAIN bytes, bytes[i].t = "event"
             PROVE  Coarse(bytes[i].extra)
  BY DEF CoarseOnly, Coarse
<1>1. route # "sealed"
  BY NothingInTheClear
<1>2. OneCase
  BY DEF ReadInv
<1>3. bytes # <<>>
  OBVIOUS
<1>4. PICK list \in Lists : \E at : Layout(bytes, list, at)
  BY <1>3 DEF ReadInv
<1>5. PICK at : Layout(bytes, list, at)
  BY <1>4
<1>6. IsSequence(list) /\ \A n \in DOMAIN list : IsItem(list[n])
  BY <1>2, MadeOfItems
<1>7. i \in 1 .. Len(bytes)
  BY <1>5, LenProperties DEF Layout, IsSequence
<1>8. PICK n \in 1 .. Len(list) : \E j \in 1 .. Len(list[n].payload) : bytes[i] = list[n].payload[j]
  BY <1>5, <1>6, <1>7, OfPayload
<1>9. PICK j \in 1 .. Len(list[n].payload) : bytes[i] = list[n].payload[j]
  BY <1>8
<1>10. n \in DOMAIN list
  BY <1>6, LenProperties DEF IsSequence
<1>11. bytes[i].extra = safe_fields(report.metadata)
  BY <1>1, <1>2, <1>9, <1>10, OneEvent
<1>12. IsMetadata(report.metadata)
  BY <1>2, ReportAssumption DEF OneCase, IsMetadata
<1> QED
  BY <1>11, <1>12, SafeFieldsCoarse

\* Of the metadata only the allowed keys leave, each once and in one order, and their
\* values stay as they are when they are coarsened again, whatever a host attached, and
\* whatever numbers, words and letters there are (quasi.rs:85).
THEOREM OnlyCoarseLeaves == Spec => []CoarseOnly
<1>1. Init => BoundInv /\ ReadInv
  BY BoundInit, ReadInit
<1>2. BoundInv /\ ReadInv /\ [Next]_vars => (BoundInv /\ ReadInv)'
  BY TimeNext, ReadNext
<1>3. ReadInv => CoarseOnly
  BY CoarseIs
<1> QED
  BY <1>1, <1>2, <1>3, PTL DEF Spec
=============================================================================
