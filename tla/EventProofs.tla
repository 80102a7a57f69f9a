----------------------------- MODULE EventProofs -----------------------------
(***************************************************************************)
(* No state of a listed record is forgotten, for any number of records,    *)
(* versions, retries, closes and failures.                                 *)
(***************************************************************************)
EXTENDS AgentEvents, TLAPS

\* Only an open socket has messages; they are of states the record has been in, and while
\* any of them is unread the latest state is among them.
WireOK ==
    \A k \in Key :
        /\ \A v \in wire[k] : v <= version[k]
        /\ wire[k] # {} => version[k] \in wire[k]
        /\ socket = "closed" => wire[k] = {}

\* No emission is later than the latest; what waits for a retry and is the
\* latest has a retry left.
RunsOK ==
    \A r \in runs :
        /\ r.n <= latest[r.key]
        /\ r.at = "waiting" /\ IsLatest(r) => r.retries < MaxRetry

\* What a snapshot has missed is still to be read from the socket.
AnswerOK ==
    socket = "open" /\ listing.answered =>
        \A kind \in DOMAIN Listed : \A k \in Listed[kind] \ listing.seen :
            listing.at = kind /\ listing.answer[k] # version[k] => version[k] \in wire[k]

EventInv == EventTypeOK /\ WireOK /\ RunsOK /\ AnswerOK /\ NothingForgotten

LEMMA KindsAreKeys ==
    /\ DOMAIN Listed = {"connections", "credentials"}
    /\ Listed["connections"] = Connections /\ Listed["credentials"] = Credentials
    /\ Connections \subseteq Key /\ Credentials \subseteq Key
  BY DEF Listed, Key

LEMMA EventInitInv == EventInit => EventInv
  <1> SUFFICES ASSUME EventInit PROVE EventInv
    OBVIOUS
  <1> USE DEF EventInit, NoEmission, NotListing
  <1>1. EventTypeOK
    BY BoundsAreNat DEF EventTypeOK
  <1>2. WireOK /\ RunsOK /\ AnswerOK /\ NothingForgotten
    BY KindsAreKeys DEF WireOK, RunsOK, AnswerOK, NothingForgotten
  <1>3. QED
    BY <1>1, <1>2 DEF EventInv

\* An error that ends the process leaves the invariant true: the socket is
\* closed, and the next one lists every record.
LEMMA DieInv ==
    ASSUME EventInv, Die, UNCHANGED version, UNCHANGED handled, UNCHANGED closes,
           failures' \in 0..MaxFailures
    PROVE  EventInv'
  <1> USE DEF EventInv, Die, NoEmission, NotListing
  <1>1. EventTypeOK'
    BY DEF EventTypeOK
  <1>2. WireOK' /\ RunsOK' /\ AnswerOK' /\ NothingForgotten'
    BY DEF WireOK, RunsOK, AnswerOK, NothingForgotten
  <1>3. QED
    BY <1>1, <1>2

\* An emission of the keys K with the versions in data.
LEMMA EmitRuns ==
    ASSUME NEW K \in SUBSET Key, NEW data, \A k \in K : data[k] \in Nat,
           EventTypeOK, RunsOK, EmitIndexed(K, data)
    PROVE  /\ latest' \in [Key -> Nat] /\ runs' \subseteq Run /\ RunsOK'
           /\ \A k \in K : \E r \in runs' : r.key = k /\ IsLatest(r)' /\ r.ver = data[k]
           /\ \A r \in runs : r.key \notin K /\ IsLatest(r) => r \in runs' /\ IsLatest(r)'
  <1> DEFINE new(k) == [key |-> k, n |-> latest[k] + 1, ver |-> data[k],
                        at |-> "running", retries |-> 0]
  <1>1. /\ runs' = runs \cup {new(k) : k \in K}
        /\ latest' = [k \in Key |-> IF k \in K THEN latest[k] + 1 ELSE latest[k]]
    BY DEF EmitIndexed
  <1>2. latest \in [Key -> Nat] /\ runs \subseteq Run
    BY DEF EventTypeOK
  <1>3. latest' \in [Key -> Nat]
    BY <1>1, <1>2
  <1>4. \A k \in K : new(k) \in Run /\ new(k).n = latest'[k] /\ new(k).key = k
                     /\ new(k).ver = data[k] /\ new(k).at = "running"
    BY <1>1, <1>2, BoundsAreNat DEF Run
  <1>5. runs' \subseteq Run
    BY <1>1, <1>2, <1>4
  <1>6. ASSUME NEW r \in runs
        PROVE  /\ r.n <= latest'[r.key]
               /\ r.n = latest'[r.key] => r.n = latest[r.key]
               /\ r.key \notin K => latest'[r.key] = latest[r.key]
    BY <1>1, <1>2 DEF RunsOK, Run
  <1>7. RunsOK'
    <2> SUFFICES ASSUME NEW r \in runs'
                 PROVE  /\ r.n <= latest'[r.key]
                        /\ r.at = "waiting" /\ r.n = latest'[r.key]
                             => r.retries < MaxRetry
      BY DEF RunsOK, IsLatest
    <2>1. CASE r \in runs
      BY <1>6, <2>1 DEF RunsOK, IsLatest
    <2>2. CASE r \notin runs
      <3>1. PICK k \in K : r = new(k)
        BY <1>1, <2>2
      <3>2. /\ r.n = latest'[r.key] /\ r.at = "running" /\ r.key = k
        BY <1>4, <3>1
      <3>3. latest'[k] \in Nat
        BY <1>3
      <3>4. QED
        BY <3>2, <3>3
    <2>3. QED
      BY <2>1, <2>2
  <1>8. \A k \in K : \E r \in runs' : r.key = k /\ IsLatest(r)' /\ r.ver = data[k]
    BY <1>1, <1>4 DEF IsLatest
  <1>9. \A r \in runs : r.key \notin K /\ IsLatest(r) => r \in runs' /\ IsLatest(r)'
    BY <1>1, <1>6 DEF IsLatest
  <1>10. QED
    BY <1>3, <1>5, <1>7, <1>8, <1>9

-----------------------------------------------------------------------------
(* The emitter's steps. *)

\* A step that replaces the run r by s, an attempt at the same emission.
LEMMA ReplaceInv ==
    ASSUME EventInv, NEW r \in runs, NEW s \in Run,
           s.key = r.key, s.n = r.n, s.ver = r.ver,
           s.at = "waiting" /\ IsLatest(s) => s.retries < MaxRetry,
           runs' = (runs \ {r}) \cup {s},
           failures' \in 0..MaxFailures,
           UNCHANGED <<version, wire, alive, socket, listing, latest, handled, closes>>
    PROVE  EventInv'
  <1> USE DEF EventInv
  <1>1. EventTypeOK'
    BY DEF EventTypeOK
  <1>2. WireOK' /\ AnswerOK'
    BY DEF WireOK, AnswerOK
  <1>3. RunsOK'
    BY DEF RunsOK, IsLatest
  <1>4. ASSUME NEW k, InProgress(k) PROVE InProgress(k)'
    BY <1>4 DEF InProgress, IsLatest
  <1>5. NothingForgotten'
    BY <1>4 DEF NothingForgotten, ToBeListed
  <1>6. QED
    BY <1>1, <1>2, <1>3, <1>5

LEMMA HandlerDoneInv ==
    ASSUME EventInv, NEW r, HandlerDone(r) PROVE EventInv'
  <1> USE DEF EventInv, HandlerDone
  <1>1. r \in Run /\ handled \in [Key -> Nat] /\ version \in [Key -> Nat]
    BY DEF EventTypeOK
  <1>2. /\ handled' \in [Key -> Nat] /\ handled'[r.key] >= r.ver
        /\ \A k \in Key : handled'[k] >= handled[k]
    BY <1>1 DEF Run
  <1>3. EventTypeOK'
    BY <1>2 DEF EventTypeOK
  <1>4. WireOK' /\ AnswerOK' /\ RunsOK'
    BY DEF WireOK, AnswerOK, RunsOK, IsLatest
  <1>5. ASSUME NEW k \in Key, version[k] > handled'[k], InProgress(k)
        PROVE  InProgress(k)'
    <2>1. PICK s \in runs : s.key = k /\ IsLatest(s) /\ s.ver = version[k]
      BY <1>5 DEF InProgress
    <2>2. s # r
      BY <2>1, <1>5, <1>2, <1>1 DEF Run
    <2>3. QED
      BY <2>1, <2>2 DEF InProgress, IsLatest
  <1>6. \A k \in Key : version'[k] > handled'[k] => version[k] > handled[k]
    BY <1>1, <1>2
  <1>7. NothingForgotten'
    BY <1>5, <1>6, KindsAreKeys DEF NothingForgotten, ToBeListed
  <1>8. QED
    BY <1>3, <1>4, <1>7

LEMMA HandlerRejectsInv ==
    ASSUME EventInv, NEW r, HandlerRejects(r) PROVE EventInv'
  <1> DEFINE s == [r EXCEPT !.at = "waiting"]
  <1>1. r \in runs /\ r \in Run /\ failures' \in 0..MaxFailures
    BY BoundsAreNat DEF EventInv, EventTypeOK, HandlerRejects, Rejects
  <1>2. /\ s \in Run /\ s.key = r.key /\ s.n = r.n /\ s.ver = r.ver
        /\ IsLatest(s) => s.retries < MaxRetry
    BY <1>1 DEF Run, IsLatest, HandlerRejects
  <1>3. /\ runs' = (runs \ {r}) \cup {s}
        /\ UNCHANGED <<version, wire, alive, socket, listing, latest, handled, closes>>
    BY DEF HandlerRejects
  <1> HIDE DEF s
  <1>4. QED
    BY <1>1, <1>2, <1>3, ReplaceInv

LEMMA RetryEmitInv ==
    ASSUME EventInv, NEW r, RetryEmit(r) PROVE EventInv'
  <1> DEFINE s == [r EXCEPT !.at = "running", !.retries = @ + 1]
  <1>1. r \in runs /\ r \in Run /\ r.at = "waiting"
    BY DEF EventInv, EventTypeOK, RetryEmit
  <1>2. UNCHANGED <<version, wire, alive, socket, listing, latest, handled, closes, failures>>
    BY DEF RetryEmit
  <1>3. CASE IsLatest(r)
    <2>1. r.retries < MaxRetry
      BY <1>1, <1>3 DEF EventInv, RunsOK
    <2> r.retries + 1 \in 0..MaxRetry
      BY <1>1, <2>1, BoundsAreNat DEF Run
    <2>2. /\ s \in Run /\ s.key = r.key /\ s.n = r.n /\ s.ver = r.ver
          /\ s.at = "running"
      BY <1>1 DEF Run
    <2>3. runs' = (runs \ {r}) \cup {s}
      BY <1>3 DEF RetryEmit
    <2>4. failures' \in 0..MaxFailures
      BY <1>2 DEF EventInv, EventTypeOK
    <2> HIDE DEF s
    <2>5. QED
      BY <1>1, <1>2, <2>2, <2>3, <2>4, ReplaceInv
  <1>4. CASE ~IsLatest(r)
    <2>1. runs' = runs \ {r}
      BY <1>4 DEF RetryEmit
    <2>2. EventTypeOK' /\ WireOK' /\ AnswerOK' /\ RunsOK'
      BY <1>2, <2>1 DEF EventInv, EventTypeOK, WireOK, AnswerOK, RunsOK, IsLatest
    <2>3. ASSUME NEW k, InProgress(k) PROVE InProgress(k)'
      BY <1>2, <1>4, <2>1, <2>3 DEF InProgress, IsLatest
    <2>4. NothingForgotten'
      BY <1>2, <2>3 DEF EventInv, NothingForgotten, ToBeListed
    <2>5. QED
      BY <2>2, <2>4 DEF EventInv
  <1>5. QED
    BY <1>3, <1>4

LEMMA RunStepInv ==
    ASSUME EventInv, NEW r, RunStep(r) PROVE EventInv'
  <1>1. CASE RetriesExhausted(r)
    <2>1. failures' \in 0..MaxFailures
      BY <1>1, BoundsAreNat DEF EventInv, EventTypeOK, RetriesExhausted, Rejects
    <2>2. QED
      BY <1>1, <2>1, DieInv DEF RetriesExhausted
  <1>2. QED
    BY <1>1, HandlerDoneInv, HandlerRejectsInv, RetryEmitInv DEF RunStep

-----------------------------------------------------------------------------
(* The socket's steps. *)

LEMMA ChangeInv ==
    ASSUME EventInv, NEW k \in Key, Change(k) PROVE EventInv'
  <1>1. /\ version \in [Key -> Nat] /\ wire \in [Key -> SUBSET Nat]
        /\ socket \in {"open", "closed"}
    BY DEF EventInv, EventTypeOK
  <1>2. /\ version' \in [Key -> Nat] /\ version'[k] = version[k] + 1
        /\ \A j \in Key \ {k} : version'[j] = version[j]
    BY <1>1 DEF Change
  <1>3. CASE socket = "closed"
    <2>1. wire' = wire
      BY <1>3 DEF Change
    <2>2. EventTypeOK' /\ WireOK' /\ RunsOK' /\ AnswerOK' /\ NothingForgotten'
      BY <1>1, <1>2, <1>3, <2>1
      DEF Change, EventInv, EventTypeOK, WireOK, RunsOK, IsLatest, AnswerOK, NothingForgotten
    <2>3. QED
      BY <2>2 DEF EventInv
  <1>4. CASE socket = "open"
    <2>1. /\ wire' \in [Key -> SUBSET Nat]
          /\ wire'[k] = wire[k] \cup {version'[k]}
          /\ \A j \in Key \ {k} : wire'[j] = wire[j]
      BY <1>1, <1>2, <1>4 DEF Change
    <2>2. UNCHANGED <<alive, socket, listing, latest, runs, handled, closes, failures>>
      BY DEF Change
    <2>3. EventTypeOK'
      BY <1>2, <2>1, <2>2 DEF EventInv, EventTypeOK
    <2>4. WireOK'
      BY <1>1, <1>2, <1>4, <2>1, <2>2 DEF EventInv, WireOK
    <2>5. RunsOK'
      BY <2>2 DEF EventInv, RunsOK, IsLatest
    <2>6. AnswerOK'
      BY <1>2, <2>1, <2>2, KindsAreKeys DEF EventInv, AnswerOK
    <2>7. NothingForgotten'
      <3> SUFFICES ASSUME NEW j \in Connections \cup Credentials, version'[j] > handled'[j]
                   PROVE  \/ version'[j] \in wire'[j] \/ InProgress(j)' \/ ToBeListed(j)'
        BY DEF NothingForgotten
      <3>1. j \in Key
        BY KindsAreKeys
      <3>2. CASE j = k
        BY <2>1, <3>2
      <3>3. CASE j # k
        <4>1. version[j] > handled[j] /\ ~(socket = "closed")
          BY <1>2, <1>4, <2>2, <3>1, <3>3
        <4>2. version[j] \in wire[j] \/ InProgress(j) \/ ToBeListed(j)
          BY <4>1 DEF EventInv, NothingForgotten
        <4>3. (InProgress(j) => InProgress(j)') /\ (ToBeListed(j) => ToBeListed(j)')
          BY <1>2, <2>2, <3>1, <3>3 DEF InProgress, IsLatest, ToBeListed
        <4>4. version'[j] = version[j] /\ wire'[j] = wire[j]
          BY <1>2, <2>1, <3>1, <3>3
        <4>5. QED
          BY <4>2, <4>3, <4>4
      <3>4. QED
        BY <3>2, <3>3
    <2>8. QED
      BY <2>3, <2>4, <2>5, <2>6, <2>7 DEF EventInv
  <1>5. QED
    BY <1>1, <1>3, <1>4

\* A socket that opens is about to list every record.
LEMMA SocketOpensInv ==
    ASSUME EventInv, SocketOpens PROVE EventInv'
  <1> USE DEF SocketOpens, NotListing
  <1>1. EventTypeOK'
    BY DEF EventInv, EventTypeOK
  <1>2. WireOK' /\ RunsOK' /\ AnswerOK'
    BY DEF EventInv, WireOK, RunsOK, IsLatest, AnswerOK
  <1>3. \A k \in Connections \cup Credentials : ToBeListed(k)'
    BY KindsAreKeys DEF ToBeListed
  <1>4. QED
    BY <1>1, <1>2, <1>3 DEF EventInv, NothingForgotten

LEMMA SocketClosesInv ==
    ASSUME EventInv, SocketCloses PROVE EventInv'
  <1> USE DEF EventInv, SocketCloses
  <1>1. EventTypeOK'
    BY BoundsAreNat DEF EventTypeOK
  <1>2. WireOK' /\ RunsOK' /\ AnswerOK' /\ NothingForgotten'
    BY DEF WireOK, RunsOK, IsLatest, AnswerOK, NothingForgotten
  <1>3. QED
    BY <1>1, <1>2

\* A message that is not the latest leaves the latest on the wire.
LEMMA MessageArrivesInv ==
    ASSUME EventInv, NEW k \in Key, NEW v, MessageArrives(k, v) PROVE EventInv'
  <1>1. /\ version \in [Key -> Nat] /\ wire \in [Key -> SUBSET Nat] /\ v \in Nat
        /\ v \in wire[k] /\ version[k] \in wire[k] /\ v <= version[k]
    BY DEF EventInv, EventTypeOK, MessageArrives, WireOK
  <1>2. /\ wire' \in [Key -> SUBSET Nat] /\ wire'[k] = wire[k] \ {v}
        /\ \A j \in Key \ {k} : wire'[j] = wire[j]
    BY <1>1 DEF MessageArrives
  <1>3. /\ listing'.seen = listing.seen \cup {k} /\ listing'.at = listing.at
        /\ listing'.answered = listing.answered /\ listing'.answer = listing.answer
        /\ listing' \in [at : {"none", "connections", "credentials"}, answered : BOOLEAN,
                         answer : [Key -> Nat], seen : SUBSET Key]
    BY DEF EventInv, EventTypeOK, MessageArrives
  <1>4. UNCHANGED <<version, alive, socket, handled, closes, failures>>
    BY DEF MessageArrives
  <1>5. /\ latest' \in [Key -> Nat] /\ runs' \subseteq Run /\ RunsOK'
        /\ \E r \in runs' : r.key = k /\ IsLatest(r)' /\ r.ver = v
        /\ \A r \in runs : r.key # k /\ IsLatest(r) => r \in runs' /\ IsLatest(r)'
    <2> DEFINE K == {k}
               data == [j \in Key |-> v]
    <2>1. K \in SUBSET Key /\ (\A j \in K : data[j] = v) /\ EmitIndexed(K, data)
      BY DEF MessageArrives
    <2> HIDE DEF K, data
    <2>2. \A j \in K : data[j] \in Nat
      BY <1>1, <2>1
    <2>3. /\ latest' \in [Key -> Nat] /\ runs' \subseteq Run /\ RunsOK'
          /\ \A j \in K : \E r \in runs' : r.key = j /\ IsLatest(r)' /\ r.ver = data[j]
          /\ \A r \in runs : r.key \notin K /\ IsLatest(r) => r \in runs' /\ IsLatest(r)'
      BY <2>1, <2>2, EmitRuns DEF EventInv
    <2>4. QED
      BY <2>1, <2>3 DEF K
  <1>6. EventTypeOK'
    BY <1>2, <1>3, <1>4, <1>5 DEF EventInv, EventTypeOK
  <1>7. WireOK'
    <2>1. socket # "closed"
      BY <1>1 DEF EventInv, WireOK
    <2> SUFFICES ASSUME NEW j \in Key
                 PROVE  /\ \A w \in wire'[j] : w <= version[j]
                        /\ wire'[j] # {} => version[j] \in wire'[j]
      BY <1>4, <2>1 DEF WireOK
    <2>2. /\ \A w \in wire[j] : w <= version[j]
          /\ wire[j] # {} => version[j] \in wire[j]
      BY DEF EventInv, WireOK
    <2>3. CASE j # k
      BY <1>2, <2>2, <2>3
    <2>4. CASE j = k
      <3>1. \A w \in wire[k] : w \in Nat /\ v <= w
        BY <1>1 DEF MessageArrives
      <3>2. v = version[k] => wire'[k] = {}
        BY <1>1, <1>2, <2>2, <2>4, <3>1
      <3>3. QED
        BY <1>1, <1>2, <2>2, <2>4, <3>2
    <2>5. QED
      BY <2>3, <2>4
  <1>8. AnswerOK'
    BY <1>1, <1>2, <1>3, <1>4, KindsAreKeys DEF EventInv, AnswerOK
  <1>9. v = version[k] => InProgress(k)'
    BY <1>4, <1>5 DEF InProgress
  <1>10. v # version[k] => version'[k] \in wire'[k]
    BY <1>1, <1>2, <1>4
  <1>11. NothingForgotten'
    <2> SUFFICES ASSUME NEW j \in Connections \cup Credentials, version'[j] > handled'[j]
                 PROVE  \/ socket' = "closed" \/ version'[j] \in wire'[j]
                        \/ InProgress(j)' \/ ToBeListed(j)'
      BY DEF NothingForgotten
    <2>1. j \in Key
      BY KindsAreKeys
    <2>2. CASE j = k
      BY <1>9, <1>10, <2>2
    <2>3. CASE j # k
      <3>1. \/ socket = "closed" \/ version[j] \in wire[j]
            \/ InProgress(j) \/ ToBeListed(j)
        BY <1>4 DEF EventInv, NothingForgotten
      <3>2. (InProgress(j) => InProgress(j)') /\ (ToBeListed(j) => ToBeListed(j)')
        BY <1>3, <1>4, <1>5, <2>1, <2>3 DEF InProgress, ToBeListed
      <3>3. wire'[j] = wire[j]
        BY <1>2, <2>1, <2>3
      <3>4. QED
        BY <1>4, <3>1, <3>2, <3>3
    <2>4. QED
      BY <2>2, <2>3
  <1>12. QED
    BY <1>5, <1>6, <1>7, <1>8, <1>11 DEF EventInv

LEMMA AgentAnswersInv ==
    ASSUME EventInv, AgentAnswers PROVE EventInv'
  <1> USE DEF EventInv, AgentAnswers
  <1>1. /\ listing'.answer = version /\ listing'.answered = TRUE
        /\ listing'.at = listing.at /\ listing'.seen = listing.seen
    BY DEF EventTypeOK
  <1>2. EventTypeOK'
    BY DEF EventTypeOK
  <1>3. WireOK' /\ RunsOK' /\ AnswerOK'
    BY <1>1, KindsAreKeys DEF WireOK, RunsOK, IsLatest, AnswerOK
  <1>4. NothingForgotten'
    <2> SUFFICES ASSUME NEW j \in Connections \cup Credentials, version[j] > handled[j]
                 PROVE  \/ socket = "closed" \/ version[j] \in wire[j]
                        \/ InProgress(j)' \/ ToBeListed(j)'
      BY DEF NothingForgotten
    <2>1. \/ socket = "closed" \/ version[j] \in wire[j] \/ InProgress(j) \/ ToBeListed(j)
      BY DEF NothingForgotten
    <2>2. (InProgress(j) => InProgress(j)') /\ (ToBeListed(j) => ToBeListed(j)')
      BY <1>1, KindsAreKeys DEF InProgress, IsLatest, ToBeListed
    <2>3. QED
      BY <2>1, <2>2
  <1>5. QED
    BY <1>2, <1>3, <1>4

\* What the loop emits is the latest state, or that is still on the wire.
LEMMA EmitListedInv ==
    ASSUME EventInv, EmitListed PROVE EventInv'
  <1> DEFINE K == {k \in Listed[listing.at] \ listing.seen : listing.answer[k] > 0}
             data == listing.answer
  <1>1. /\ listing.at \in {"connections", "credentials"} /\ listing.answered
        /\ data \in [Key -> Nat] /\ version \in [Key -> Nat] /\ handled \in [Key -> Nat]
        /\ listing.seen \subseteq Key /\ listing.at \in DOMAIN Listed
    BY KindsAreKeys DEF EventInv, EventTypeOK, EmitListed
  <1>2. /\ K \in SUBSET Key /\ EmitIndexed(K, data) /\ \A k \in K : data[k] \in Nat
    BY <1>1, KindsAreKeys DEF EmitListed
  <1>3. /\ listing'.seen = listing.seen /\ listing'.answered = FALSE
        /\ listing'.at = IF listing.at = "connections" THEN "credentials" ELSE "none"
        /\ listing' \in [at : {"none", "connections", "credentials"}, answered : BOOLEAN,
                         answer : [Key -> Nat], seen : SUBSET Key]
    BY DEF EventInv, EventTypeOK, EmitListed, NextCall
  <1>4. UNCHANGED <<version, wire, alive, socket, handled, closes, failures>>
    BY DEF EmitListed
  <1>5. \A k \in Key : k \in K <=>
            k \in Listed[listing.at] /\ k \notin listing.seen /\ data[k] > 0
    BY <1>1, KindsAreKeys
  <1> HIDE DEF K, data
  <1>6. /\ latest' \in [Key -> Nat] /\ runs' \subseteq Run /\ RunsOK'
        /\ \A k \in K : \E r \in runs' : r.key = k /\ IsLatest(r)' /\ r.ver = data[k]
        /\ \A r \in runs : r.key \notin K /\ IsLatest(r) => r \in runs' /\ IsLatest(r)'
    BY <1>2, EmitRuns DEF EventInv
  <1>7. EventTypeOK'
    BY <1>3, <1>4, <1>6 DEF EventInv, EventTypeOK
  <1>8. WireOK' /\ AnswerOK'
    BY <1>3, <1>4 DEF EventInv, WireOK, AnswerOK
  <1>9. ASSUME NEW k \in Connections \cup Credentials, version[k] > handled[k]
        PROVE  \/ socket = "closed" \/ version[k] \in wire[k]
               \/ InProgress(k)' \/ ToBeListed(k)'
    <2>1. CASE k \in K /\ data[k] = version[k]
      BY <1>4, <1>6, <2>1 DEF InProgress
    <2>2. CASE k \in K /\ data[k] # version[k]
      BY <1>1, <1>5, <2>2, KindsAreKeys DEF EventInv, EventTypeOK, AnswerOK, data
    <2>3. CASE k \notin K /\ InProgress(k)
      BY <1>4, <1>6, <2>3 DEF InProgress
    <2>4. CASE k \notin K /\ ToBeListed(k)
      <3>1. k \notin listing.seen /\ version[k] > 0
        BY <1>1, <1>9, <2>4, KindsAreKeys DEF ToBeListed
      <3>2. CASE listing.at = "connections" /\ k \in Credentials
        BY <1>3, <3>1, <3>2, KindsAreKeys DEF ToBeListed
      <3>3. CASE k \in Listed[listing.at] /\ data[k] = version[k]
        BY <1>5, <2>4, <3>1, <3>3, KindsAreKeys
      <3>4. QED
        BY <1>1, <2>4, <3>2, <3>3 DEF ToBeListed, data
    <2>5. CASE k \in K
      BY <2>1, <2>2, <2>5
    <2>6. CASE k \notin K
      <3>1. \/ socket = "closed" \/ version[k] \in wire[k] \/ InProgress(k) \/ ToBeListed(k)
        BY <1>9 DEF EventInv, NothingForgotten
      <3>2. QED
        BY <2>3, <2>4, <2>6, <3>1
    <2>7. QED
      BY <2>5, <2>6
  <1>10. NothingForgotten'
    BY <1>4, <1>9 DEF NothingForgotten
  <1>11. QED
    BY <1>6, <1>7, <1>8, <1>10 DEF EventInv

-----------------------------------------------------------------------------
LEMMA EventNextInv == EventInv /\ [EventNext]_eventVars => EventInv'
  <1> SUFFICES ASSUME EventInv, [EventNext]_eventVars PROVE EventInv'
    OBVIOUS
  <1>1. CASE UNCHANGED eventVars
    BY <1>1 DEF eventVars, EventInv, EventTypeOK, WireOK, RunsOK, IsLatest, AnswerOK,
                NothingForgotten, InProgress, ToBeListed
  <1>2. CASE \E k \in Key : Change(k) \/ \E v \in 1..MaxVersion[k] : MessageArrives(k, v)
    BY <1>2, ChangeInv, MessageArrivesInv
  <1>3. CASE \E r \in runs : RunStep(r)
    BY <1>3, RunStepInv
  <1>4. CASE ListingFails \/ Crash
    <2>1. failures' \in 0..MaxFailures /\ Die /\ UNCHANGED <<version, handled, closes>>
      BY <1>4, BoundsAreNat DEF EventInv, EventTypeOK, ListingFails, Crash
    <2>2. QED
      BY <2>1, DieInv
  <1>5. CASE Restart
    BY <1>5 DEF Restart, EventInv, EventTypeOK, WireOK, RunsOK, IsLatest, AnswerOK,
                NothingForgotten, InProgress, ToBeListed
  <1>6. QED
    BY <1>1, <1>2, <1>3, <1>4, <1>5, SocketOpensInv, SocketClosesInv, AgentAnswersInv,
       EmitListedInv DEF EventNext, ListingStep

\* The variables of the socket and of the emitter keep their types; no emission
\* is tried more often than maxRetryCount allows.
THEOREM EventTypes == EventSpec => []EventTypeOK
  <1>1. EventSpec => []EventInv
    BY EventInitInv, EventNextInv, PTL DEF EventSpec
  <1>2. EventInv => EventTypeOK
    BY DEF EventInv
  <1>3. QED
    BY <1>1, <1>2, PTL

\* The latest state of every listed record is handled, in progress, on the wire
\* or about to be listed, always.
THEOREM NothingIsForgotten == EventSpec => []NothingForgotten
  <1>1. EventSpec => []EventInv
    BY EventInitInv, EventNextInv, PTL DEF EventSpec
  <1>2. EventInv => NothingForgotten
    BY DEF EventInv
  <1>3. QED
    BY <1>1, <1>2, PTL
=============================================================================
