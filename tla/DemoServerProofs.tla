-------------------------- MODULE DemoServerProofs --------------------------
(***************************************************************************)
(* The demo application proved for any number of requests.                 *)
(***************************************************************************)
EXTENDS DemoServer, SequenceTheorems, TLAPS

Object == {"stop_signal", "prometheus_server", "stop_prometheus", "server", "stop_server"}

\* The scope of main grows to P5 and shrinks from there: it is one of these.
P0 == <<>>
P1 == <<"stop_signal">>
P2 == <<"stop_signal", "prometheus_server">>
P3 == <<"stop_signal", "prometheus_server", "stop_prometheus">>
P4 == <<"stop_signal", "prometheus_server", "stop_prometheus", "server">>
P5 == <<"stop_signal", "prometheus_server", "stop_prometheus", "server", "stop_server">>

LEMMA Lengths ==
    Len(P0) = 0 /\ Len(P1) = 1 /\ Len(P2) = 2 /\ Len(P3) = 3 /\ Len(P4) = 4 /\ Len(P5) = 5
BY DEF P0, P1, P2, P3, P4, P5

LEMMA Scopes ==
    /\ P0 \in Seq(Object) /\ P1 \in Seq(Object) /\ P2 \in Seq(Object)
    /\ P3 \in Seq(Object) /\ P4 \in Seq(Object) /\ P5 \in Seq(Object)
BY DEF P0, P1, P2, P3, P4, P5, Object

LEMMA Members ==
    /\ ToSet(P0) = {} /\ ToSet(P1) = {"stop_signal"}
    /\ ToSet(P2) = ToSet(P1) \cup {"prometheus_server"}
    /\ ToSet(P3) = ToSet(P2) \cup {"stop_prometheus"}
    /\ ToSet(P4) = ToSet(P3) \cup {"server"}
    /\ ToSet(P5) = ToSet(P4) \cup {"stop_server"}
BY DEF P0, P1, P2, P3, P4, P5, ToSet

\* An object that is added last is the first to go.
LEMMA LastIn ==
    ASSUME NEW S, NEW s \in Seq(S), NEW e \in S
    PROVE  Last(Append(s, e)) = e /\ Front(Append(s, e)) = s
<1> DEFINE t == Append(s, e)
<1>1. /\ t \in Seq(S) /\ Len(t) = Len(s) + 1 /\ Len(s) \in Nat
      /\ \A i \in 1 .. Len(s) : t[i] = s[i]
      /\ t[Len(s) + 1] = e
  BY AppendProperties, LenProperties
<1> HIDE DEF t
<1>2. Last(t) = e
  BY <1>1 DEF Last
<1>3. Front(t) = SubSeq(t, 1, Len(s))
  BY <1>1 DEF Front
<1>4. \A i \in 1 .. Len(s) : t[i] \in S
  BY <1>1, ElementOfSeq
<1>5. /\ SubSeq(t, 1, Len(s)) \in Seq(S)
      /\ Len(SubSeq(t, 1, Len(s))) = Len(s)
      /\ \A i \in 1 .. Len(s) : SubSeq(t, 1, Len(s))[i] = s[i]
  BY <1>1, <1>4, SubSeqProperties
<1>6. SubSeq(t, 1, Len(s)) = s
  BY <1>5, SeqEqual
<1> QED
  BY <1>2, <1>3, <1>6 DEF t

LEMMA Extend ==
    ASSUME NEW S, NEW s \in Seq(S), NEW t \in Seq(S), Len(t) = Len(s) + 1,
           \A i \in 1 .. Len(s) : t[i] = s[i]
    PROVE  t = Append(s, t[Len(t)])
<1> DEFINE e == t[Len(t)]
           a == Append(s, e)
<1>1. Len(s) \in Nat /\ e \in S
  BY LenProperties, ElementOfSeq
<1>2. /\ a \in Seq(S) /\ Len(a) = Len(s) + 1
      /\ \A i \in 1 .. Len(s) : a[i] = s[i]
      /\ a[Len(s) + 1] = e
  BY <1>1, AppendProperties
<1> HIDE DEF a
<1>3. \A i \in 1 .. Len(t) : t[i] = a[i]
  BY <1>1, <1>2
<1> QED
  BY <1>2, <1>3, SeqEqual DEF a

LEMMA Grows ==
    /\ P1 = Append(P0, "stop_signal") /\ P2 = Append(P1, "prometheus_server")
    /\ P3 = Append(P2, "stop_prometheus") /\ P4 = Append(P3, "server")
    /\ P5 = Append(P4, "stop_server")
<1>1. P1 = Append(P0, "stop_signal")
  <2>1. P1[1] = "stop_signal" /\ \A i \in 1 .. 0 : P1[i] = P0[i]
    BY DEF P0, P1
  <2>2. Len(P1) = Len(P0) + 1 /\ \A i \in 1 .. Len(P0) : P1[i] = P0[i]
    BY <2>1, Lengths
  <2>3. P1 = Append(P0, P1[Len(P1)])
    BY <2>2, Scopes, Extend
  <2> QED
    BY <2>1, <2>3, Lengths
<1>2. P2 = Append(P1, "prometheus_server")
  <2>1. P2[2] = "prometheus_server" /\ \A i \in 1 .. 1 : P2[i] = P1[i]
    BY DEF P1, P2
  <2>2. Len(P2) = Len(P1) + 1 /\ \A i \in 1 .. Len(P1) : P2[i] = P1[i]
    BY <2>1, Lengths
  <2>3. P2 = Append(P1, P2[Len(P2)])
    BY <2>2, Scopes, Extend
  <2> QED
    BY <2>1, <2>3, Lengths
<1>3. P3 = Append(P2, "stop_prometheus")
  <2>1. P3[3] = "stop_prometheus" /\ \A i \in 1 .. 2 : P3[i] = P2[i]
    BY DEF P2, P3
  <2>2. Len(P3) = Len(P2) + 1 /\ \A i \in 1 .. Len(P2) : P3[i] = P2[i]
    BY <2>1, Lengths
  <2>3. P3 = Append(P2, P3[Len(P3)])
    BY <2>2, Scopes, Extend
  <2> QED
    BY <2>1, <2>3, Lengths
<1>4. P4 = Append(P3, "server")
  <2>1. P4[4] = "server" /\ \A i \in 1 .. 3 : P4[i] = P3[i]
    BY DEF P3, P4
  <2>2. Len(P4) = Len(P3) + 1 /\ \A i \in 1 .. Len(P3) : P4[i] = P3[i]
    BY <2>1, Lengths
  <2>3. P4 = Append(P3, P4[Len(P4)])
    BY <2>2, Scopes, Extend
  <2> QED
    BY <2>1, <2>3, Lengths
<1>5. P5 = Append(P4, "stop_server")
  <2>1. P5[5] = "stop_server" /\ \A i \in 1 .. 4 : P5[i] = P4[i]
    BY DEF P4, P5
  <2>2. Len(P5) = Len(P4) + 1 /\ \A i \in 1 .. Len(P4) : P5[i] = P4[i]
    BY <2>1, Lengths
  <2>3. P5 = Append(P4, P5[Len(P5)])
    BY <2>2, Scopes, Extend
  <2> QED
    BY <2>1, <2>3, Lengths
<1> QED
  BY <1>1, <1>2, <1>3, <1>4, <1>5

LEMMA Pops ==
    /\ Last(P1) = "stop_signal" /\ Front(P1) = P0
    /\ Last(P2) = "prometheus_server" /\ Front(P2) = P1
    /\ Last(P3) = "stop_prometheus" /\ Front(P3) = P2
    /\ Last(P4) = "server" /\ Front(P4) = P3
    /\ Last(P5) = "stop_server" /\ Front(P5) = P4
<1>1. \A s \in Seq(Object), e \in Object :
         Last(Append(s, e)) = e /\ Front(Append(s, e)) = s
  BY LastIn
<1>2. /\ "stop_signal" \in Object /\ "prometheus_server" \in Object
      /\ "stop_prometheus" \in Object /\ "server" \in Object /\ "stop_server" \in Object
  BY DEF Object
<1> QED
  BY <1>1, <1>2, Grows, Scopes, Zenon

-----------------------------------------------------------------------------

\* Where main is, what its scope holds and which servers are started.
ScopeAt ==
    /\ at \in {"prometheus_start", "metrics", "prometheus_listen", "server"} => scope = P3
    /\ at = "defer" => scope = P4
    /\ at \in {"routes", "listen", "wait"} => scope = P5
    /\ at = "unwind" => scope \in {P1, P2, P3, P4, P5}
    /\ at = "exited" => scope = P0
    /\ at = "aborted" => scope \in {P1, P3}

\* The HTTP server is started while its deferred action is there to stop it, and
\* the metrics server while its own is, unless its start raised.
ServersAt ==
    /\ "server" \in started => scope = P5 \/ at = "defer"
    /\ at \in {"defer", "routes", "listen", "wait"} => "server" \in started
    /\ "prometheus_server" \in started =>
          \/ at = "metrics"
          \/ threw = "metrics"
          \/ prometheus_started /\ scope \in {P3, P4, P5}
    /\ threw = "metrics" =>
          /\ "prometheus_server" \in started /\ ~prometheus_started
          /\ (at = "unwind" /\ scope # P1) \/ at = "aborted"
    /\ at = "metrics" => "prometheus_server" \in started /\ ~prometheus_started
    /\ at = "prometheus_start" => ~prometheus_started
    /\ at = "aborted" => threw = "metrics"
    /\ at \in Startup \cup {"wait"} => threw = "none"
    /\ listening => at = "wait"

\* Requests that wait for their answer keep the server started.
RequestsAt == \A r \in ReqId : UnderWay(r) => "server" \in started

IInv == TypeOK /\ ScopeAt /\ ServersAt /\ RequestsAt

LEMMA Apart ==
    /\ P0 # P1 /\ P0 # P2 /\ P0 # P3 /\ P0 # P4 /\ P0 # P5
    /\ P1 # P2 /\ P1 # P3 /\ P1 # P4 /\ P1 # P5
    /\ P2 # P3 /\ P2 # P4 /\ P2 # P5 /\ P3 # P4 /\ P3 # P5 /\ P4 # P5
<1>1. /\ Len(P0) # Len(P1) /\ Len(P0) # Len(P2) /\ Len(P0) # Len(P3)
      /\ Len(P0) # Len(P4) /\ Len(P0) # Len(P5)
  BY Lengths
<1>2. /\ Len(P1) # Len(P2) /\ Len(P1) # Len(P3) /\ Len(P1) # Len(P4) /\ Len(P1) # Len(P5)
  BY Lengths
<1>3. /\ Len(P2) # Len(P3) /\ Len(P2) # Len(P4) /\ Len(P2) # Len(P5)
      /\ Len(P3) # Len(P4) /\ Len(P3) # Len(P5) /\ Len(P4) # Len(P5)
  BY Lengths
<1> QED
  BY <1>1, <1>2, <1>3

LEMMA InitInv == Init => IInv
<1> SUFFICES ASSUME Init PROVE IInv
  OBVIOUS
<1>1. scope = P3
  BY DEF Init, P3
<1>2. TypeOK
  BY <1>1, Members, Apart DEF Init, TypeOK, Startup, P0
<1>3. ScopeAt /\ ServersAt /\ RequestsAt
  BY <1>1 DEF Init, ScopeAt, ServersAt, RequestsAt, UnderWay, Startup
<1> QED
  BY <1>2, <1>3 DEF IInv

LEMMA ProceedInv ==
    ASSUME IInv, Proceed
    PROVE  IInv'
<1> USE DEF IInv
<1>1. /\ at \in Startup /\ at' = After(at) /\ started' = started \cup Starts(at)
      /\ prometheus_started' = (prometheus_started \/ Flags(at))
      /\ listening' = (at = "listen")
      /\ UNCHANGED <<caught, threw, request>>
  BY DEF Proceed
<1>2. CASE at \in {"prometheus_start", "metrics", "prometheus_listen"}
  <2>1. scope = P3 /\ scope' = P3 /\ at' \in {"metrics", "prometheus_listen", "server"}
    BY <1>1, <1>2 DEF Proceed, ScopeAt, After
  <2>2. TypeOK'
    BY <1>1, <2>1, Apart DEF TypeOK, Startup, Starts, Flags, P0
  <2>3. ScopeAt' /\ RequestsAt'
    BY <1>1, <2>1 DEF ScopeAt, RequestsAt, UnderWay
  <2>4. ServersAt'
    BY <1>1, <1>2, <2>1, Apart DEF ServersAt, Startup, After, Starts, Flags
  <2> QED
    BY <2>2, <2>3, <2>4
<1>3. CASE at = "server"
  <2>1. scope = P3 /\ scope' = P4 /\ at' = "defer" /\ started' = started \cup {"server"}
    BY <1>1, <1>3, Grows DEF Proceed, ScopeAt, After, Starts
  <2>2. TypeOK'
    BY <1>1, <2>1, Apart, Members DEF TypeOK, Startup, Flags, P0
  <2>3. ScopeAt' /\ RequestsAt'
    BY <1>1, <2>1 DEF ScopeAt, RequestsAt, UnderWay
  <2>4. ServersAt'
    BY <1>1, <1>3, <2>1, Apart DEF ServersAt, Startup, Flags
  <2> QED
    BY <2>2, <2>3, <2>4
<1>4. CASE at = "defer"
  <2>1. scope = P4 /\ scope' = P5 /\ at' = "routes" /\ started' = started
    BY <1>1, <1>4, Grows DEF Proceed, ScopeAt, After, Starts
  <2>2. TypeOK'
    BY <1>1, <2>1, Apart, Members DEF TypeOK, Startup, Flags, P0
  <2>3. ScopeAt' /\ RequestsAt'
    BY <1>1, <2>1 DEF ScopeAt, RequestsAt, UnderWay
  <2>4. ServersAt'
    BY <1>1, <1>4, <2>1, Apart DEF ServersAt, Startup, Flags
  <2> QED
    BY <2>2, <2>3, <2>4
<1>5. CASE at \in {"routes", "listen"}
  <2>1. scope = P5 /\ scope' = P5 /\ at' \in {"listen", "wait"} /\ started' = started
    BY <1>1, <1>5 DEF Proceed, ScopeAt, After, Starts
  <2>2. TypeOK'
    BY <1>1, <2>1, Apart DEF TypeOK, Startup, Flags, P0
  <2>3. ScopeAt' /\ RequestsAt'
    BY <1>1, <2>1 DEF ScopeAt, RequestsAt, UnderWay
  <2>4. ServersAt'
    BY <1>1, <1>5, <2>1, Apart DEF ServersAt, Startup, Flags, After
  <2> QED
    BY <2>2, <2>3, <2>4
<1> QED
  BY <1>1, <1>2, <1>3, <1>4, <1>5 DEF Startup

LEMMA LeaveInv ==
    ASSUME IInv, Throws \/ WaitIsOver
    PROVE  IInv'
<1> USE DEF IInv
<1>1. /\ at' = "unwind" /\ UNCHANGED <<scope, started, prometheus_started, caught, request>>
      /\ scope = P3 \/ scope = P4 \/ scope = P5
      /\ ~listening'
  BY DEF Throws, WaitIsOver, ScopeAt, ServersAt, Startup
<1>2. listening' \in BOOLEAN /\ threw' \in Startup \cup {"none"}
  BY DEF Throws, WaitIsOver, TypeOK
<1>3. TypeOK'
  BY <1>1, <1>2, Apart DEF TypeOK, P0
<1>4. ScopeAt' /\ RequestsAt'
  BY <1>1 DEF ScopeAt, RequestsAt, UnderWay
<1>5. ServersAt'
  <2>1. CASE Throws
    BY <1>1, <2>1, Apart DEF Throws, ServersAt, ScopeAt, Startup
  <2>2. CASE WaitIsOver
    BY <1>1, <2>2 DEF WaitIsOver, ServersAt
  <2> QED
    BY <2>1, <2>2
<1> QED
  BY <1>3, <1>4, <1>5

\* Each destructor finds what it needs stopped, unless the start of the metrics
\* raised.
LEMMA UnwindInv ==
    ASSUME IInv, Unwind
    PROVE  IInv'
<1> USE DEF IInv
<1>1. /\ at = "unwind" /\ scope' = Front(scope)
      /\ UNCHANGED <<prometheus_started, listening, caught, threw, request>>
      /\ ~listening
  BY DEF Unwind, ServersAt
<1>2. CASE scope = P5
  <2>1. scope' = P4 /\ StopServer
    BY <1>1, <1>2, Pops DEF Unwind
  <2>2. /\ at' = at /\ started' = started \ {"server"}
        /\ \A r \in ReqId : ~UnderWay(r)
    BY <2>1 DEF StopServer
  <2>3. TypeOK'
    BY <1>1, <2>1, <2>2, Apart, Members DEF TypeOK, P0
  <2>4. ScopeAt' /\ RequestsAt'
    BY <1>1, <2>1, <2>2 DEF ScopeAt, RequestsAt, UnderWay
  <2>5. ServersAt'
    BY <1>1, <1>2, <2>1, <2>2, Apart DEF ServersAt, Startup
  <2> QED
    BY <2>3, <2>4, <2>5
<1>3. CASE scope = P4
  <2>1. scope' = P3 /\ Destroy("server") /\ "server" \notin started
    BY <1>1, <1>3, Pops, Apart DEF Unwind, ServersAt
  <2>2. at' = at /\ started' = started
    BY <2>1 DEF Destroy
  <2>3. TypeOK'
    BY <1>1, <2>1, <2>2, Apart, Members DEF TypeOK, P0
  <2>4. ScopeAt' /\ RequestsAt'
    BY <1>1, <2>1, <2>2 DEF ScopeAt, RequestsAt, UnderWay
  <2>5. ServersAt'
    BY <1>1, <1>3, <2>1, <2>2, Apart DEF ServersAt, Startup
  <2> QED
    BY <2>3, <2>4, <2>5
<1>4. CASE scope = P3
  <2>1. scope' = P2 /\ StopPrometheus /\ "server" \notin started
    BY <1>1, <1>4, Pops, Apart DEF Unwind, ServersAt
  <2>2. /\ at' = at /\ started' \subseteq started
        /\ prometheus_started => "prometheus_server" \notin started'
        /\ ~prometheus_started => started' = started
    BY <2>1 DEF StopPrometheus
  <2>3. TypeOK'
    BY <1>1, <2>1, <2>2, Apart, Members DEF TypeOK, P0
  <2>4. ScopeAt' /\ RequestsAt'
    BY <1>1, <2>1, <2>2 DEF ScopeAt, RequestsAt, UnderWay
  <2>5. ServersAt'
    BY <1>1, <1>4, <2>1, <2>2, Apart DEF ServersAt, Startup
  <2> QED
    BY <2>3, <2>4, <2>5
<1>5. CASE scope = P2
  <2>1. scope' = P1 /\ Destroy("prometheus_server") /\ "server" \notin started
    BY <1>1, <1>5, Pops, Apart DEF Unwind, ServersAt
  <2>2. /\ at' = IF "prometheus_server" \in started THEN "aborted" ELSE at
        /\ started' = started
        /\ "prometheus_server" \in started => threw = "metrics"
    BY <1>1, <1>5, <2>1, Apart DEF Destroy, ServersAt
  <2>3. TypeOK'
    BY <1>1, <2>1, <2>2, Apart, Members DEF TypeOK, P0
  <2>4. ScopeAt' /\ RequestsAt'
    BY <1>1, <2>1, <2>2 DEF ScopeAt, RequestsAt, UnderWay
  <2>5. ServersAt'
    BY <1>1, <1>5, <2>1, <2>2 DEF ServersAt, Startup
  <2> QED
    BY <2>3, <2>4, <2>5
<1>6. CASE scope = P1
  <2>1. scope' = P0 /\ Destroy("stop_signal") /\ "server" \notin started
    BY <1>1, <1>6, Pops, Apart DEF Unwind, ServersAt
  <2>2. /\ at' = "exited" /\ started' = started
        /\ "prometheus_server" \in started => threw = "metrics"
    BY <1>1, <1>6, <2>1, Apart DEF Destroy, TypeOK, ServersAt
  <2>3. TypeOK'
    BY <1>1, <2>1, <2>2, Members DEF TypeOK, P0
  <2>4. ScopeAt' /\ RequestsAt'
    BY <1>1, <2>1, <2>2 DEF ScopeAt, RequestsAt, UnderWay
  <2>5. ServersAt'
    BY <1>1, <1>6, <2>1, <2>2 DEF ServersAt, Startup
  <2> QED
    BY <2>3, <2>4, <2>5
<1> QED
  BY <1>1, <1>2, <1>3, <1>4, <1>5, <1>6 DEF ScopeAt

LEMMA RequestInv ==
    ASSUME IInv, NEW r \in ReqId, Arrive(r) \/ Answer(r)
    PROVE  IInv'
<1> USE DEF IInv
<1>1. UNCHANGED <<at, scope, started, prometheus_started, listening, caught, threw>>
  BY DEF Arrive, Answer
<1>2. ScopeAt' /\ ServersAt'
  BY <1>1 DEF ScopeAt, ServersAt
<1>3. "server" \in started
  BY DEF Arrive, Answer, ServersAt, RequestsAt, UnderWay
<1>4. TypeOK' /\ RequestsAt'
  BY <1>1, <1>3 DEF Arrive, Answer, UnderWay, TypeOK, RequestsAt
<1> QED
  BY <1>2, <1>4

LEMMA NextInv == IInv /\ [Next]_vars => IInv'
<1> SUFFICES ASSUME IInv, [Next]_vars PROVE IInv'
  OBVIOUS
<1>1. CASE UNCHANGED vars
  BY <1>1 DEF vars, IInv, TypeOK, ScopeAt, ServersAt, RequestsAt, UnderWay
<1>2. CASE Signal
  BY <1>2 DEF Signal, IInv, TypeOK, ScopeAt, ServersAt, RequestsAt, UnderWay
<1> QED
  BY <1>1, <1>2, ProceedInv, LeaveInv, UnwindInv, RequestInv DEF Next, Main, AtRest

LEMMA Inductive == Spec => []IInv
BY InitInv, NextInv, PTL DEF Spec

\* The types, and main is over when its scope is empty.
THEOREM TypeCorrect == Spec => []TypeOK
<1>1. IInv => TypeOK
  BY DEF IInv
<1> QED
  BY <1>1, Inductive, PTL

\* However main is left, by a signal or by any step of the startup that raises,
\* no server is destroyed while it is started, but for the metrics server when
\* prometheus::start raised; then it always is.
THEOREM AbortsExactlyThere == Spec => []AbortsExactlyInMetrics
<1>1. IInv => AbortsExactlyInMetrics
  BY DEF IInv, ServersAt, AbortsExactlyInMetrics
<1> QED
  BY <1>1, Inductive, PTL

\* A request that is not answered has its server, and the objects below it.
THEOREM ServerOutlivesRequests == Spec => []NoRequestWithoutServer
<1>1. ASSUME IInv PROVE NoRequestWithoutServer
  <2>1. "server" \in started => scope = P5 \/ scope = P4
    BY <1>1 DEF IInv, ServersAt, ScopeAt
  <2>2. "server" \in started => {"server", "stop_signal"} \subseteq ToSet(scope)
    BY <2>1, Members
  <2> QED
    BY <1>1, <2>2 DEF IInv, RequestsAt, NoRequestWithoutServer
<1> QED
  BY <1>1, Inductive, PTL
=============================================================================
