--------------------- MODULE ProviderConfiguration_proofs ---------------------
(***************************************************************************)
(* Proofs about ProviderConfiguration and the transport, for any           *)
(* providers, processes, requests and outcomes.  What makes KeyFitsRecord  *)
(* inductive is that a call midway which is still clean is the only one    *)
(* midway on its provider, and the key on disk is its own.  What makes     *)
(* SaveKeepsTheRest follow is that the form shows the file: the list is    *)
(* the file's, but for what was appended since, the form is the list's,    *)
(* but for what was edited, and the call is the form's.                    *)
(***************************************************************************)
EXTENDS ProviderConfiguration, SequenceTheorems, WellFoundedInduction, TLAPS

-----------------------------------------------------------------------------
(* The key and the record *)

IsCallRecord(call) ==
  /\ DOMAIN call = {"stage", "request", "number", "clean"}
  /\ call.stage \in {"secret", "record", "manifest"}
  /\ call.request.provider \in Providers
  /\ call.stage = "secret" => WritesKey(call.request)

CallsTyped ==
  /\ DOMAIN calls = Callers /\ \A c \in Callers : calls[c] = Idle \/ IsCallRecord(calls[c])
  /\ DOMAIN file = Providers /\ DOMAIN secrets = Providers
  /\ troubled \in [Providers -> BOOLEAN]

CleanIsAlone ==
  \A c \in Callers, p \in Providers : IsMidway(c, p) /\ calls[c].clean =>
    /\ secrets[p] = calls[c].number
    /\ \A d \in Callers \ {c} : ~IsMidway(d, p)

IInv == CallsTyped /\ CleanIsAlone /\ KeyFitsRecord

\* Only a call that wrote a key leaves its number in the record.
LEMMA ByIsKept ==
  ASSUME NEW request, NEW n
  PROVE  ReadBack(Record(request, n)).by = IF WritesKey(request) THEN n ELSE NoKey
<1> DEFINE r == Record(request, n)
<1>1. /\ r.by = (IF WritesKey(request) THEN n ELSE NoKey)
      /\ DOMAIN r = {"display", "enabled", "model", "endpoint", "source", "inline", "reference",
                     "env", "ref", "by", "named"}
  BY Zenon DEF Record
<1> HIDE DEF r
<1>2. ReadBack(r).by = r.by
  BY <1>1 DEF ReadBack
<1> QED
  BY <1>1, <1>2 DEF r

LEMMA IdleStage == Idle.stage = "idle"
  BY DEF Idle

LEMMA Initially == ProviderInit => IInv
<1> SUFFICES ASSUME ProviderInit PROVE IInv
  OBVIOUS
<1>1. CallsTyped /\ \A c \in Callers : calls[c].stage = "idle"
  BY IdleStage DEF ProviderInit, CallsTyped, NoTable
<1>2. CleanIsAlone
  BY <1>1 DEF CleanIsAlone, IsMidway
<1>3. KeyFitsRecord
  BY DEF ProviderInit, NoTable, KeyFitsRecord
<1> QED
  BY <1>1, <1>2, <1>3 DEF IInv

\* A step that begins a call, or moves one past its record, or does neither.
LEMMA QuietStep ==
  ASSUME IInv, UNCHANGED <<file, secrets, troubled>>, DOMAIN calls' = Callers,
         \A c \in Callers :
           \/ calls'[c] = calls[c]
           \/ /\ calls'[c] = Idle \/ IsCallRecord(calls'[c])
              /\ \A p \in Providers : ~IsMidway(c, p) /\ ~IsMidway(c, p)'
  PROVE  IInv'
<1> USE DEF IInv
<1>1. CallsTyped'
  BY DEF CallsTyped
<1>2. \A c \in Callers, p \in Providers :
        /\ IsMidway(c, p)' <=> IsMidway(c, p)
        /\ IsMidway(c, p) => calls'[c] = calls[c]
  BY DEF IsMidway
<1>3. CleanIsAlone'
  BY <1>2 DEF CleanIsAlone
<1>4. KeyFitsRecord'
  BY <1>2 DEF KeyFitsRecord
<1> QED
  BY <1>1, <1>3, <1>4

\* A call that ends midway troubles its provider.
LEMMA EndedKeeps ==
  ASSUME IInv, NEW c \in Callers, UNCHANGED <<file, secrets>>,
         calls' = [calls EXCEPT ![c] = Idle], troubled' = TroubledBy(c)
  PROVE  IInv'
<1> USE DEF IInv
<1>1. /\ DOMAIN calls' = Callers /\ calls'[c] = Idle
      /\ \A d \in Callers \ {c} : calls'[d] = calls[d]
  BY DEF CallsTyped
<1>2. \A p \in Providers : troubled'[p] <=> troubled[p] \/ IsMidway(c, p)
  BY DEF TroubledBy, CallsTyped
<1>3. /\ \A p \in Providers : ~IsMidway(c, p)'
      /\ \A d \in Callers \ {c}, p \in Providers : IsMidway(d, p)' <=> IsMidway(d, p)
  BY <1>1, IdleStage DEF IsMidway
<1>4. CallsTyped'
  BY <1>1 DEF CallsTyped, TroubledBy, IsMidway
<1>5. CleanIsAlone'
  BY <1>1, <1>3 DEF CleanIsAlone
<1>6. KeyFitsRecord'
  BY <1>2, <1>3 DEF KeyFitsRecord
<1> QED
  BY <1>4, <1>5, <1>6

LEMMA BeginSetKeeps ==
  ASSUME IInv, NEW c \in Callers, NEW request, request.provider \in Providers,
         BeginSet(c, request)
  PROVE  IInv'
<1> DEFINE call == [stage |-> FirstStep(request), request |-> request, number |-> count + 1,
                    clean |-> TRUE]
<1>1. /\ calls[c] = Idle /\ calls' = [calls EXCEPT ![c] = call]
      /\ UNCHANGED <<file, secrets, troubled>>
  BY Zenon DEF BeginSet, IsFree, disk
<1>2. /\ call.stage = FirstStep(request) /\ call.request = request
      /\ DOMAIN call = {"stage", "request", "number", "clean"}
  BY Zenon
<1> HIDE DEF call
<1>3. /\ DOMAIN calls' = Callers /\ calls'[c] = call
      /\ \A d \in Callers \ {c} : calls'[d] = calls[d]
  BY <1>1 DEF IInv, CallsTyped
<1>4. IsCallRecord(call)
  BY <1>2 DEF IsCallRecord, FirstStep
<1>5. \A p \in Providers : ~IsMidway(c, p) /\ ~IsMidway(c, p)'
  BY <1>1, <1>2, <1>3, IdleStage DEF IsMidway, FirstStep
<1> QED
  BY <1>1, <1>3, <1>4, <1>5, QuietStep

LEMMA WriteSecretKeeps == ASSUME IInv, NEW c \in Callers, WriteSecret(c) PROVE IInv'
<1> DEFINE p == calls[c].request.provider
           others == {d \in Callers \ {c} : IsMidway(d, p)}
<1>1. PICK key \in {calls[c].number, NoKey, secrets[p]} :
        /\ secrets' = [secrets EXCEPT ![p] = key]
        /\ calls' = [d \in Callers |->
             IF d = c THEN [calls[c] EXCEPT !.stage = "record",
                                            !.clean = others = {} /\ key = calls[c].number]
             ELSE IF d \in others THEN [calls[d] EXCEPT !.clean = FALSE] ELSE calls[d]]
  BY Zenon DEF WriteSecret
<1>2. calls[c].stage = "secret" /\ UNCHANGED <<file, troubled>>
  BY DEF WriteSecret, history
<1>3. IsCallRecord(calls[c]) /\ p \in Providers /\ WritesKey(calls[c].request)
  BY <1>2, IdleStage DEF IInv, CallsTyped, IsCallRecord
<1>4. \A d \in others : d \in Callers /\ d # c /\ IsCallRecord(calls[d])
  BY IdleStage DEF IInv, CallsTyped, IsMidway
<1> HIDE DEF p
<1>5. /\ IsCallRecord(calls'[c]) /\ calls'[c].stage = "record"
      /\ calls'[c].request = calls[c].request /\ calls'[c].number = calls[c].number
      /\ calls'[c].clean => others = {} /\ key = calls[c].number
  <2> DEFINE b == others = {} /\ key = calls[c].number
  <2>1. calls'[c] = [calls[c] EXCEPT !.stage = "record", !.clean = b]
    BY <1>1
  <2> HIDE DEF b
  <2>2. /\ DOMAIN calls'[c] = DOMAIN calls[c] /\ calls'[c].stage = "record"
        /\ calls'[c].request = calls[c].request /\ calls'[c].number = calls[c].number
        /\ calls'[c].clean = b
    BY <1>3, <2>1 DEF IsCallRecord
  <2> QED
    BY <1>3, <2>2 DEF IsCallRecord, b
<1>6. \A d \in others :
        /\ IsCallRecord(calls'[d]) /\ calls'[d].stage = calls[d].stage
        /\ calls'[d].request = calls[d].request /\ ~calls'[d].clean
  <2> SUFFICES ASSUME NEW d \in others
               PROVE  /\ IsCallRecord(calls'[d]) /\ calls'[d].stage = calls[d].stage
                      /\ calls'[d].request = calls[d].request /\ ~calls'[d].clean
    OBVIOUS
  <2>1. calls'[d] = [calls[d] EXCEPT !.clean = FALSE]
    BY <1>1, <1>4
  <2>2. PICK b \in BOOLEAN : b = FALSE
    OBVIOUS
  <2>3. calls'[d] = [calls[d] EXCEPT !.clean = b]
    BY <2>1, <2>2
  <2>4. /\ DOMAIN calls'[d] = DOMAIN calls[d] /\ calls'[d].stage = calls[d].stage
        /\ calls'[d].request = calls[d].request /\ calls'[d].clean = b
    BY <1>4, <2>3 DEF IsCallRecord
  <2> QED
    BY <1>4, <2>2, <2>4 DEF IsCallRecord
<1>7. \A d \in Callers \ ({c} \union others) : calls'[d] = calls[d]
  BY <1>1
<1>8. DOMAIN calls' = Callers
  BY <1>1
<1>9. \A q \in Providers : secrets'[q] = IF q = p THEN key ELSE secrets[q]
  BY <1>1, <1>3 DEF IInv, CallsTyped
<1>10. DOMAIN secrets' = Providers
  BY <1>1 DEF IInv, CallsTyped
<1>11. \A d \in Callers, q \in Providers :
         IsMidway(d, q)' <=> IF d = c THEN q = p ELSE IsMidway(d, q)
  <2> TAKE d \in Callers, q \in Providers
  <2>1. CASE d = c
    BY <1>3, <1>5, <2>1 DEF IsMidway, p
  <2>2. CASE d \in others
    BY <1>4, <1>6, <2>2 DEF IsMidway
  <2>3. CASE d \notin {c} \union others
    BY <1>7, <2>3 DEF IsMidway
  <2> QED
    BY <2>1, <2>2, <2>3
<1>12. \A d \in Callers : d \in others <=> d # c /\ IsMidway(d, p)
  OBVIOUS
<1> HIDE DEF others
<1>13. CallsTyped'
  <2>1. \A d \in Callers : calls'[d] = Idle \/ IsCallRecord(calls'[d])
    BY <1>5, <1>6, <1>7 DEF IInv, CallsTyped
  <2> QED
    BY <1>2, <1>8, <1>10, <2>1 DEF IInv, CallsTyped
<1>14. CleanIsAlone'
  <2> SUFFICES ASSUME NEW d \in Callers, NEW q \in Providers, IsMidway(d, q)', calls'[d].clean
               PROVE  /\ secrets'[q] = calls'[d].number
                      /\ \A e \in Callers \ {d} : ~IsMidway(e, q)'
    BY DEF CleanIsAlone
  <2>1. CASE d = c
    <3>1. q = p /\ others = {} /\ key = calls'[c].number
      BY <1>5, <1>11, <2>1
    <3> QED
      BY <1>9, <1>11, <1>12, <2>1, <3>1
  <2>2. CASE d # c
    <3>1. d \notin others /\ IsMidway(d, q) /\ calls'[d] = calls[d]
      BY <1>6, <1>7, <1>11, <2>2
    <3>2. q # p
      BY <1>12, <2>2, <3>1
    <3>3. secrets[q] = calls[d].number /\ \A e \in Callers \ {d} : ~IsMidway(e, q)
      BY <3>1 DEF IInv, CleanIsAlone
    <3> QED
      BY <1>9, <1>11, <3>1, <3>2, <3>3
  <2> QED
    BY <2>1, <2>2
<1>15. KeyFitsRecord'
  <2> SUFFICES ASSUME NEW q \in Providers, file'[q] # NoRecord, file'[q].by # NoKey, ~troubled'[q],
                      \A d \in Callers : ~IsMidway(d, q)'
               PROVE  secrets'[q] = file'[q].by
    BY DEF KeyFitsRecord
  <2>1. q # p
    BY <1>11
  <2>2. \A d \in Callers : ~IsMidway(d, q)
    BY <1>2, <1>11 DEF IsMidway
  <2> QED
    BY <1>2, <1>9, <2>1, <2>2 DEF IInv, KeyFitsRecord
<1> QED
  BY <1>13, <1>14, <1>15 DEF IInv

LEMMA AppendRecordKeeps == ASSUME IInv, NEW c \in Callers, AppendRecord(c) PROVE IInv'
<1> DEFINE request == calls[c].request
           p == request.provider
           stored == ReadBack(Record(request, calls[c].number))
<1>1. /\ calls[c].stage = "record" /\ file' = [file EXCEPT ![p] = stored]
      /\ calls' = [calls EXCEPT ![c].stage = "manifest"]
      /\ troubled' = IF WritesKey(request) THEN [troubled EXCEPT ![p] = ~calls[c].clean]
                     ELSE troubled
      /\ UNCHANGED secrets
  BY Zenon DEF AppendRecord
<1>2. IsCallRecord(calls[c]) /\ p \in Providers
  BY <1>1, IdleStage DEF IInv, CallsTyped, IsCallRecord
<1>3. stored.by = IF WritesKey(request) THEN calls[c].number ELSE NoKey
  BY ByIsKept
<1>4. IsMidway(c, p) <=> WritesKey(request)
  BY <1>1 DEF IsMidway
<1>5. \A q \in Providers : q # p => ~IsMidway(c, q)
  BY DEF IsMidway
<1> HIDE DEF request, p, stored
<1>6. /\ DOMAIN calls' = Callers /\ \A d \in Callers \ {c} : calls'[d] = calls[d]
      /\ calls'[c] = [calls[c] EXCEPT !.stage = "manifest"]
  BY <1>1 DEF IInv, CallsTyped
<1>7. calls'[c].stage = "manifest" /\ IsCallRecord(calls'[c])
  BY <1>2, <1>6 DEF IsCallRecord
<1>8. /\ \A q \in Providers : ~IsMidway(c, q)'
      /\ \A d \in Callers \ {c}, q \in Providers : IsMidway(d, q)' <=> IsMidway(d, q)
  BY <1>6, <1>7 DEF IsMidway
<1>9. /\ DOMAIN file' = Providers /\ file'[p] = stored
      /\ \A q \in Providers : q # p => file'[q] = file[q]
  BY <1>1, <1>2 DEF IInv, CallsTyped
<1>10. /\ troubled' \in [Providers -> BOOLEAN]
       /\ \A q \in Providers : q # p => troubled'[q] = troubled[q]
       /\ WritesKey(request) /\ ~troubled'[p] => calls[c].clean
  BY <1>1, <1>2 DEF IInv, CallsTyped
<1>11. CallsTyped'
  BY <1>1, <1>6, <1>7, <1>9, <1>10 DEF IInv, CallsTyped
<1>12. CleanIsAlone'
  BY <1>1, <1>6, <1>8 DEF IInv, CleanIsAlone
<1>13. KeyFitsRecord'
  <2> SUFFICES ASSUME NEW q \in Providers, file'[q] # NoRecord, file'[q].by # NoKey, ~troubled'[q],
                      \A d \in Callers : ~IsMidway(d, q)'
               PROVE  secrets'[q] = file'[q].by
    BY DEF KeyFitsRecord
  <2>1. CASE q = p
    <3>1. WritesKey(request) /\ file'[p].by = calls[c].number
      BY <1>3, <1>9, <2>1
    <3>2. IsMidway(c, p) /\ calls[c].clean
      BY <1>4, <1>10, <2>1, <3>1
    <3>3. secrets[p] = calls[c].number
      BY <1>2, <3>2 DEF IInv, CleanIsAlone
    <3> QED
      BY <1>1, <2>1, <3>1, <3>3
  <2>2. CASE q # p
    <3>1. /\ file[q] # NoRecord /\ file[q].by # NoKey /\ ~troubled[q]
          /\ \A d \in Callers : ~IsMidway(d, q)
      BY <1>5, <1>8, <1>9, <1>10, <2>2
    <3>2. secrets[q] = file[q].by
      BY <3>1 DEF IInv, KeyFitsRecord
    <3> QED
      BY <1>1, <1>9, <2>2, <3>2
  <2> QED
    BY <2>1, <2>2
<1> QED
  BY <1>11, <1>12, <1>13 DEF IInv

LEMMA WriteManifestKeeps == ASSUME IInv, NEW c \in Callers, WriteManifest(c) PROVE IInv'
<1>1. /\ calls[c].stage = "manifest" /\ calls' = [calls EXCEPT ![c] = Idle]
      /\ UNCHANGED <<file, secrets, troubled>>
  BY DEF WriteManifest, disk
<1>2. /\ DOMAIN calls' = Callers /\ calls'[c] = Idle
      /\ \A d \in Callers \ {c} : calls'[d] = calls[d]
  BY <1>1 DEF IInv, CallsTyped
<1>3. \A p \in Providers : ~IsMidway(c, p) /\ ~IsMidway(c, p)'
  BY <1>1, <1>2, IdleStage DEF IsMidway
<1> QED
  BY <1>1, <1>2, <1>3, QuietStep

\* A step that touches neither a call nor the disk.
LEMMA ViewKeeps ==
  ASSUME IInv, UNCHANGED <<file, secrets, troubled, calls>> PROVE IInv'
  BY QuietStep DEF IInv, CallsTyped

LEMMA AskedKeeps ==
  ASSUME IInv, NEW c \in Callers, NEW options, NEW outcome, Asked(c, options, outcome)
  PROVE  IInv'
<1>1. CASE Ended(c) /\ UNCHANGED <<onWindows, disk, count, overtaken>>
  BY <1>1, EndedKeeps DEF Ended, disk
<1>2. CASE UNCHANGED vars
  BY <1>2, ViewKeeps DEF vars
<1> QED
  BY <1>1, <1>2 DEF Asked

\* A clean call midway is alone on its provider, whoever calls and dies.
THEOREM ProviderInvariant == ProviderSpec => []IInv
<1>1. IInv /\ [ProviderNext]_vars => IInv'
  <2> SUFFICES ASSUME IInv, [ProviderNext]_vars PROVE IInv'
    OBVIOUS
  <2>1. CASE UNCHANGED vars
    BY <2>1, ViewKeeps DEF vars
  <2>2. ASSUME NEW c \in Callers, CallStep(c) PROVE IInv'
    <3>1. CASE \E request \in Requests : c # Window /\ BeginSet(c, request)
      BY <3>1, BeginSetKeeps, ProviderAssumption DEF IsRequest
    <3>2. CASE WriteSecret(c) \/ AppendRecord(c) \/ WriteManifest(c)
      BY <3>2, WriteSecretKeeps, AppendRecordKeeps, WriteManifestKeeps
    <3>3. CASE AppendRefused(c) \/ Die(c)
      BY <3>3, EndedKeeps DEF AppendRefused, Die, Ended, disk
    <3>4. CASE \E p \in Providers, outcome \in Outcomes : c # Window /\ TestProvider(c, p, outcome)
      BY <3>4, AskedKeeps DEF TestProvider
    <3> QED
      BY <2>2, <3>1, <3>2, <3>3, <3>4 DEF CallStep
  <2>3. CASE WindowStep
    <3>1. CASE \E outcome \in Outcomes : TestCurrent(outcome)
      BY <3>1, AskedKeeps, ProviderAssumption DEF TestCurrent, TestProvider
    <3>2. CASE Save
      BY <3>2, BeginSetKeeps, ProviderAssumption DEF Save, IsRequest
    <3>3. CASE UNCHANGED <<file, secrets, troubled, calls>>
      BY <3>3, ViewKeeps
    <3> QED
      BY <2>3, <3>1, <3>2, <3>3 DEF WindowStep, Refresh, Select, Edit, disk, history
  <2>4. CASE OpenConsole
    BY <2>4, ViewKeeps DEF OpenConsole, disk, history
  <2>5. CASE \E outcome \in Outcomes : ConsoleQuery(outcome)
    BY <2>5, AskedKeeps, ProviderAssumption DEF ConsoleQuery
  <2> QED
    BY <2>1, <2>2, <2>3, <2>4, <2>5 DEF ProviderNext
<1> QED
  BY Initially, <1>1, PTL DEF ProviderSpec

\* A record that a call wrote a key for finds that call's key on disk, unless a
\* call died, was refused or met another between its two writes
\* (execute_command, IntegrationSetProvider).
THEOREM KeysFitRecords == ProviderSpec => []KeyFitsRecord
<1>1. IInv => KeyFitsRecord
  BY DEF IInv
<1> QED
  BY <1>1, ProviderInvariant, PTL

-----------------------------------------------------------------------------
(* What is told of a request *)

LEMMA SucceededIs == ASSUME NEW text PROVE Succeeded(text).ok = TRUE
  BY Zenon DEF Succeeded

LEMMA UncaughtIs == Uncaught.ok = FALSE /\ Uncaught.attempted = FALSE /\ Uncaught.class = "uncaught"
  BY Zenon DEF Uncaught

\* What is told when nothing was sent.
LEMMA NothingToTell ==
  ASSUME NEW options, NEW result, result.ok = FALSE, result.attempted = FALSE
  PROVE  ~TellsAttempted(options, result)
  BY Zenon DEF TellsAttempted

\* A request that got no further than its record or its key.
LEMMA UnaskedIsHonest ==
  ASSUME NEW options, NEW outcome,
         ~IsOpenAiLikeProviderName(options.provider) \/ options.key = NoKey
  PROVE  IsHonest(options, outcome)
<1> DEFINE result == Run(options, onWindows, outcome)
<1>1. PICK class : result = Failed(class, FALSE, FALSE, NoStage)
  BY Zenon DEF Run, Interpreted
<1>2. result.ok = FALSE /\ result.attempted = FALSE
  <2> HIDE DEF result
  <2> QED
    BY Zenon, <1>1 DEF Failed
<1>3. ~IsSent(options, onWindows, outcome)
  BY Zenon DEF IsSent
<1> QED
  BY Zenon, <1>2, <1>3, NothingToTell DEF IsHonest

\* The executor failed: what is told is what it says of the network.
LEMMA FailureIsHonest ==
  ASSUME NEW options, NEW outcome, NEW response,
         IsOpenAiLikeProviderName(options.provider), options.key # NoKey,
         Run(options, onWindows, outcome) = Interpreted(options, response),
         response.success = FALSE,
         \/ response.network = TRUE /\ IsSent(options, onWindows, outcome)
         \/ response.network = FALSE /\ ~IsSent(options, onWindows, outcome)
         \/ response.network = FALSE /\ response.stage \in {"receive_response", "read_body"}
  PROVE  IsHonest(options, outcome)
<1> DEFINE result == Run(options, onWindows, outcome)
           failed == Failed(response.stage, response.stage \notin {"open_session", "open_request"},
                            response.network, response.stage)
<1>1. result = failed
  BY Zenon DEF Interpreted
<1>2. result.ok = FALSE /\ result.attempted = response.network /\ result.class = response.stage
  <2> HIDE DEF result
  <2> QED
    BY Zenon, <1>1 DEF Failed
<1>3. TellsAttempted(options, result) = response.network
  BY Zenon, <1>2 DEF TellsAttempted
<1>4. CASE response.network = TRUE /\ IsSent(options, onWindows, outcome)
  BY Zenon, <1>4, <1>3, <1>2 DEF IsHonest
<1>5. CASE response.network = FALSE /\ ~IsSent(options, onWindows, outcome)
  BY Zenon, <1>5, <1>3, <1>2 DEF IsHonest
<1>6. CASE response.network = FALSE /\ response.stage \in {"receive_response", "read_body"}
  <2>1. result.class \in {"receive_response", "read_body", "uncaught"}
    BY <1>6, <1>2
  <2>2. ~(result.ok \/ TellsAttempted(options, result))
    BY Zenon, <1>6, <1>3, <1>2
  <2> QED
    BY Zenon, <2>1, <2>2 DEF IsHonest
<1> QED
  BY Zenon, <1>4, <1>5, <1>6

\* A reply that was read was sent for: what is told is that, or an exception.
LEMMA ReplyIsHonest ==
  ASSUME NEW options, NEW outcome, NEW response,
         IsOpenAiLikeProviderName(options.provider), options.key # NoKey,
         Run(options, onWindows, outcome) = Interpreted(options, response),
         response.success = TRUE, IsSent(options, onWindows, outcome)
  PROVE  IsHonest(options, outcome)
<1> DEFINE result == Run(options, onWindows, outcome)
           failed(class, retryable, stage) == Failed(class, retryable, TRUE, stage)
<1>1. result = ParseResponseBody(response.body, response.status)
  BY Zenon DEF Interpreted
<1>2. CASE result = Uncaught
  <2>1. result.class \in {"receive_response", "read_body", "uncaught"}
    BY <1>2, UncaughtIs
  <2> QED
    BY Zenon, <2>1 DEF IsHonest
<1>3. CASE \E class, retryable, stage : result = failed(class, retryable, stage)
  <2>1. PICK class, retryable, stage : result = failed(class, retryable, stage)
    BY Zenon, <1>3
  <2>2. result.ok = FALSE /\ result.attempted = TRUE
    <3> HIDE DEF result
    <3> QED
      BY Zenon, <2>1 DEF Failed
  <2>3. TellsAttempted(options, result)
    BY Zenon, <2>2 DEF TellsAttempted
  <2> QED
    BY Zenon, <2>3 DEF IsHonest
<1>4. CASE \E text : result = Succeeded(text)
  <2>1. result.ok = TRUE
    BY Zenon, <1>4, SucceededIs
  <2>2. options.model # NoText => TellsAttempted(options, result)
    BY Zenon, <2>1 DEF TellsAttempted
  <2> QED
    BY Zenon, <2>1, <2>2 DEF IsHonest
<1> QED
  BY Zenon, <1>1, <1>2, <1>3, <1>4 DEF ParseResponseBody

\* Whatever the record, the key and the network, what is said of a request is
\* what was done.
LEMMA EveryAttemptIsTold ==
  ASSUME NEW options, NEW outcome, onWindows \in BOOLEAN
  PROVE  IsHonest(options, outcome)
<1>1. CASE ~IsOpenAiLikeProviderName(options.provider) \/ options.key = NoKey
  BY <1>1, UnaskedIsHonest
<1>2. CASE /\ IsOpenAiLikeProviderName(options.provider) /\ options.key # NoKey
           /\ onWindows = TRUE
  <2> DEFINE response == Execute(options.endpoint, outcome)
  <2>1. Run(options, onWindows, outcome) = Interpreted(options, response)
    BY Zenon, <1>2 DEF Run
  <2>2. IsSent(options, onWindows, outcome) <=>
          /\ options.endpoint \notin BadEndpoints
          /\ outcome.fails \notin {"open_session", "connect", "open_request", "send_request"}
    BY Zenon, <1>2 DEF IsSent
  <2>3. CASE options.endpoint \in BadEndpoints
    <3>1. PICK stage : response = AssignFailure(stage, NoStatus)
      BY Zenon, <2>3 DEF Execute
    <3>2. response.success = FALSE /\ response.network = FALSE
      <4> HIDE DEF response
      <4> QED
        BY Zenon, <3>1 DEF AssignFailure
    <3> QED
      BY Zenon, <1>2, <2>1, <2>2, <2>3, <3>2, FailureIsHonest
  <2>4. CASE options.endpoint \notin BadEndpoints /\ outcome.fails \in Stages
    <3>1. PICK status : response = AssignFailure(outcome.fails, status)
      BY Zenon, <2>4 DEF Execute
    <3>2. response.success = FALSE /\ response.network = FALSE /\ response.stage = outcome.fails
      <4> HIDE DEF response
      <4> QED
        BY Zenon, <3>1 DEF AssignFailure
    <3>3. \/ ~IsSent(options, onWindows, outcome)
          \/ outcome.fails \in {"receive_response", "read_body"}
      BY <2>2, <2>4 DEF Stages
    <3> QED
      BY Zenon, <1>2, <2>1, <3>2, <3>3, FailureIsHonest
  <2>5. CASE options.endpoint \notin BadEndpoints /\ outcome.fails \notin Stages
    <3>1. IsSent(options, onWindows, outcome)
      BY <2>2, <2>5 DEF Stages
    <3>2. response.success = (outcome.status # NoStatus) /\ response.network = TRUE
      BY Zenon, <2>5 DEF Execute
    <3>3. CASE response.success = TRUE
      BY Zenon, <1>2, <2>1, <3>1, <3>3, ReplyIsHonest
    <3>4. CASE response.success = FALSE
      BY Zenon, <1>2, <2>1, <3>1, <3>2, <3>4, FailureIsHonest
    <3> QED
      BY Zenon, <3>2, <3>3, <3>4
  <2> QED
    BY Zenon, <2>3, <2>4, <2>5
<1>3. CASE /\ IsOpenAiLikeProviderName(options.provider) /\ options.key # NoKey
           /\ onWindows = FALSE
  <2> DEFINE response == StandIn(options.key)
  <2>1. Run(options, onWindows, outcome) = Interpreted(options, response)
    BY Zenon, <1>3 DEF Run
  <2>2. IsSent(options, onWindows, outcome) <=> options.key \in TestKeys
    BY Zenon, <1>3 DEF IsSent
  <2>3. CASE options.key \in TestKeys
    <3>1. response.success = TRUE
      BY Zenon, <2>3 DEF StandIn
    <3> QED
      BY Zenon, <1>3, <2>1, <2>2, <2>3, <3>1, ReplyIsHonest
  <2>4. CASE options.key \notin TestKeys
    <3>1. PICK stage : response = AssignFailure(stage, NoStatus)
      BY Zenon, <2>4 DEF StandIn
    <3>2. response.success = FALSE /\ response.network = FALSE
      <4> HIDE DEF response
      <4> QED
        BY Zenon, <3>1 DEF AssignFailure
    <3> QED
      BY Zenon, <1>3, <2>1, <2>2, <2>4, <3>2, FailureIsHonest
  <2> QED
    BY Zenon, <2>3, <2>4
<1> QED
  BY Zenon, <1>1, <1>2, <1>3

\* A process runs on Windows, or it does not.
OnePlatform == onWindows \in BOOLEAN

\* What is told of a request to the provider is what was done, whatever record is
\* in the file or in the console, whatever key it finds and whatever the network
\* does; unless the reply was lost after the request was sent, ended the process,
\* or the record has no model (WinHttpExecutor::Execute,
\* ProviderHttpTransport::HealthCheck).
THEOREM AttemptsTold == ProviderSpec => []AttemptsAreTold
<1>1. ProviderInit => OnePlatform
  BY DEF ProviderInit, OnePlatform
<1>2. [ProviderNext]_vars => UNCHANGED onWindows
  <2> SUFFICES ASSUME [ProviderNext]_vars PROVE UNCHANGED onWindows
    OBVIOUS
  <2>1. CASE UNCHANGED vars
    BY <2>1 DEF vars
  <2>2. ASSUME NEW c \in Callers, CallStep(c) PROVE UNCHANGED onWindows
    <3>1. ASSUME NEW request, BeginSet(c, request) PROVE UNCHANGED onWindows
      BY Zenon, <3>1 DEF BeginSet
    <3>2. WriteSecret(c) \/ AppendRecord(c) \/ AppendRefused(c) => UNCHANGED onWindows
      BY Zenon DEF WriteSecret, AppendRecord, AppendRefused
    <3>3. WriteManifest(c) \/ Die(c) => UNCHANGED onWindows
      BY Zenon DEF WriteManifest, Die
    <3>4. ASSUME NEW p, NEW outcome, TestProvider(c, p, outcome) PROVE UNCHANGED onWindows
      BY Zenon, <3>4 DEF TestProvider, Asked, vars
    <3> QED
      BY Zenon, <2>2, <3>1, <3>2, <3>3, <3>4 DEF CallStep
  <2>3. CASE WindowStep
    <3>1. ASSUME NEW outcome, TestCurrent(outcome) PROVE UNCHANGED onWindows
      BY Zenon, <3>1 DEF TestCurrent, TestProvider, Asked, vars
    <3>2. Refresh \/ Save => UNCHANGED onWindows
      BY Zenon DEF Refresh, Save, BeginSet
    <3>3. ASSUME NEW p, Select(p) PROVE UNCHANGED onWindows
      BY Zenon, <3>3 DEF Select
    <3>4. ASSUME NEW field, NEW value, Edit(field, value) PROVE UNCHANGED onWindows
      BY Zenon, <3>4 DEF Edit
    <3> QED
      BY Zenon, <2>3, <3>1, <3>2, <3>3, <3>4 DEF WindowStep
  <2>4. CASE OpenConsole
    BY Zenon, <2>4 DEF OpenConsole
  <2>5. CASE \E outcome \in Outcomes : ConsoleQuery(outcome)
    BY Zenon, <2>5 DEF ConsoleQuery, Asked, vars
  <2> QED
    BY <2>1, <2>2, <2>3, <2>4, <2>5 DEF ProviderNext
<1>3. OnePlatform /\ [ProviderNext]_vars => OnePlatform'
  BY <1>2 DEF OnePlatform
<1>4. OnePlatform => AttemptsAreTold
  <2> SUFFICES ASSUME OnePlatform, NEW p \in Providers, NEW outcome \in Outcomes
               PROVE  /\ file[p] # NoRecord => IsHonest(Options(p, file[p]), outcome)
                      /\ console.loaded[p] # NoRecord => IsHonest(Options(p, console.loaded[p]), outcome)
    BY DEF AttemptsAreTold
  <2>1. onWindows \in BOOLEAN
    BY DEF OnePlatform
  <2>2. IsHonest(Options(p, file[p]), outcome)
    BY <2>1, EveryAttemptIsTold
  <2>3. IsHonest(Options(p, console.loaded[p]), outcome)
    BY <2>1, EveryAttemptIsTold
  <2> QED
    BY <2>2, <2>3
<1> QED
  BY <1>1, <1>3, <1>4, PTL DEF ProviderSpec

-----------------------------------------------------------------------------

(* Texts *)

LEMMA TextIs ==
  ASSUME NEW text
  PROVE  IsText(text) <=> /\ Len(text) \in Nat
                          /\ text = [i \in 1..Len(text) |-> text[i]]
<1>1. ASSUME IsText(text) PROVE Len(text) \in Nat /\ text = [i \in 1..Len(text) |-> text[i]]
  BY <1>1, LenProperties DEF IsText
<1>2. ASSUME Len(text) \in Nat, text = [i \in 1..Len(text) |-> text[i]] PROVE IsText(text)
  <2>1. text \in [1..Len(text) -> ToSet(text)]
    BY <1>2 DEF ToSet
  <2> QED
    BY <1>2, <2>1 DEF IsText
<1> QED
  BY <1>1, <1>2

\* sanitize_for_storage leaves no ';' and touches nothing else.
LEMMA SanitizedText ==
  ASSUME NEW text, IsText(text)
  PROVE  /\ IsText(Sanitized(text)) /\ IsPlain(Sanitized(text))
         /\ text # NoText => Sanitized(text) # NoText
         /\ IsPlain(text) => Sanitized(text) = text
<1> DEFINE n == Len(text)
           s == Sanitized(text)
<1>1. n \in Nat /\ text = [i \in 1..n |-> text[i]]
  BY TextIs
<1>2. s = [i \in 1..n |-> IF text[i] = ";" THEN "_" ELSE text[i]]
  BY <1>1 DEF Sanitized
<1>3. s \in Seq(ToSet(s)) /\ Len(s) = n
  <2>1. s \in [1..n -> ToSet(s)]
    BY <1>2 DEF ToSet
  <2> QED
    BY <1>1, <2>1
<1>4. IsText(s)
  BY <1>3 DEF IsText
<1>5. IsPlain(s)
  BY <1>2 DEF IsPlain, ToSet
<1>6. text # NoText => s # NoText
  BY <1>1, <1>3 DEF NoText
<1>7. ASSUME IsPlain(text) PROVE s = text
  <2>1. \A i \in 1..n : text[i] # ";"
    BY <1>1, <1>7 DEF IsPlain, ToSet
  <2> QED
    BY <1>1, <1>2, <2>1
<1> QED
  BY <1>4, <1>5, <1>6, <1>7

LEMMA Shortest ==
  ASSUME NEW I \in SUBSET Nat, I # {}
  PROVE  Min(I) \in I /\ \A i \in I : Min(I) <= i
<1>1. PICK n \in I : \A i \in I : n <= i
  <2>1. PICK n \in I : \A i \in I : ~(<<i, n>> \in OpToRel(<, Nat))
    BY NatLessThanWellFounded, WFMin
  <2>2. \A i \in I : ~(i < n)
    BY <2>1 DEF OpToRel
  <2> QED
    BY <2>2
<1> QED
  BY <1>1 DEF Min

\* What is before a separator has none, and is the whole text when that has none.
LEMMA BeforeText ==
  ASSUME NEW text, IsText(text), NEW separator
  PROVE  /\ IsText(Before(text, separator))
         /\ separator \notin ToSet(Before(text, separator))
         /\ ToSet(Before(text, separator)) \subseteq ToSet(text)
         /\ separator \notin ToSet(text) => Before(text, separator) = text
<1>1. CASE separator \notin ToSet(text)
  BY <1>1 DEF Before
<1>2. CASE separator \in ToSet(text)
  <2> DEFINE I == {i \in 1..Len(text) : text[i] = separator}
             first == SelectInSeq(text, LAMBDA w : w = separator)
  <2>1. Len(text) \in Nat /\ DOMAIN text = 1..Len(text)
    BY LenProperties DEF IsText
  <2>2. I # {} /\ I \in SUBSET Nat
    BY <1>2, <2>1 DEF ToSet
  <2>3. first = Min(I)
    BY <2>2 DEF SelectInSeq
  <2>4. first \in I /\ \A i \in I : first <= i
    BY <2>2, <2>3, Shortest
  <2> HIDE DEF first
  <2>5. first \in 1..Len(text) /\ \A i \in 1..(first - 1) : text[i] # separator
    <3>1. first \in 1..Len(text) /\ \A i \in 1..Len(text) : text[i] = separator => first <= i
      BY <2>4
    <3> QED
      BY <2>1, <3>1
  <2>6. Before(text, separator) = SubSeq(text, 1, first - 1)
    BY <1>2 DEF Before, first
  <2> HIDE DEF I
  <2> DEFINE b == Before(text, separator)
  <2>7. b = [i \in 1..(first - 1) |-> text[i]] /\ Len(b) = first - 1
    BY <2>1, <2>5, <2>6
  <2> HIDE DEF b
  <2>8. ToSet(b) \subseteq ToSet(text) /\ separator \notin ToSet(b)
    BY <2>1, <2>5, <2>7 DEF ToSet
  <2>9. IsText(b)
    <3>1. first - 1 \in Nat
      BY <2>1, <2>5
    <3>2. Len(b) \in Nat /\ b = [i \in 1..Len(b) |-> b[i]]
      BY <2>7, <3>1
    <3> QED
      BY <3>2, TextIs
  <2> QED
    BY <1>2, <2>8, <2>9 DEF b
<1> QED
  BY <1>1, <1>2

-----------------------------------------------------------------------------
(* Records *)

RecordDomain == {"display", "enabled", "model", "endpoint", "source", "inline", "reference",
                 "env", "ref", "by", "named"}

LEMMA RecordFields ==
  ASSUME NEW request, NEW n, NEW r, r = Record(request, n)
  PROVE  /\ DOMAIN r = RecordDomain
         /\ r.display = Sanitized(Given(request.display, <<request.provider>>))
         /\ r.enabled = request.enabled /\ r.model = Sanitized(request.model)
         /\ r.endpoint = Given(request.endpoint, DefaultFor(request.provider))
         /\ r.source = request.source /\ r.inline = (request.source = Env)
         /\ r.reference = Named(request).name /\ r.named = Named(request)
         /\ r.env = (IF request.source = Env THEN Sanitized(request.env) ELSE NoText)
         /\ r.ref = (IF request.source = Existing THEN Sanitized(request.ref) ELSE NoText)
         /\ r.by = (IF WritesKey(request) THEN n ELSE NoKey)
  BY Zenon DEF Record, RecordDomain

LEMMA ReadBackFields ==
  ASSUME NEW r, DOMAIN r = RecordDomain, NEW s, s = ReadBack(r)
  PROVE  /\ s.display = r.display /\ s.enabled = r.enabled /\ s.inline = r.inline
         /\ s.reference = r.reference /\ s.named = r.named /\ s.by = r.by
         /\ IF IsPlain(r.endpoint)
            THEN /\ s.endpoint = Before(r.endpoint, ",") /\ s.env = Before(r.env, ",")
                 /\ s.ref = Before(r.ref, ",") /\ s.model = Before(r.model, ",")
                 /\ s.source = Before(Before(r.source, ";"), ",")
            ELSE /\ s.endpoint = Before(Before(r.endpoint, ";"), ",") /\ s.env = NoText
                 /\ s.ref = NoText /\ s.model = NoText /\ s.source = NoText
<1> USE DEF RecordDomain
<1>1. CASE IsPlain(r.endpoint)
  BY <1>1 DEF ReadBack
<1>2. CASE ~IsPlain(r.endpoint)
  BY <1>2 DEF ReadBack
<1> QED
  BY <1>1, <1>2

LEMMA NoTextIs == IsText(NoText) /\ IsSetting(NoText)
<1>1. IsText(NoText)
  BY EmptySeq DEF NoText, IsText
<1> QED
  BY <1>1 DEF NoText, IsSetting, IsPlain, ToSet

LEMMA NameIs ==
  ASSUME NEW p \in Providers
  PROVE  /\ IsText(<<p>>) /\ <<p>> # NoText
         /\ IsPlain(SecretPath(p)) /\ SecretPath(p) # NoText
<1>1. IsText(<<p>>) /\ <<p>> # NoText
  BY TextIs DEF NoText
<1>2. \A i \in DOMAIN SecretPath(p) : SecretPath(p)[i] \in {p, ".secret"}
  BY DEF SecretPath
<1>3. p # ";"
  BY ProviderAssumption
<1>4. IsPlain(SecretPath(p))
  BY <1>2, <1>3 DEF IsPlain, ToSet
<1>5. SecretPath(p) # NoText
  BY DEF SecretPath, NoText
<1> QED
  BY <1>1, <1>4, <1>5

LEMMA SettingBefore ==
  ASSUME NEW text, IsText(text)
  PROVE  /\ IsPlain(text) => IsSetting(Before(text, ","))
         /\ IsSetting(Before(Before(text, ";"), ","))
         /\ IsSetting(text) => Before(text, ",") = text
  BY BeforeText DEF IsSetting, IsPlain

LEMMA NamedIs ==
  ASSUME NEW request, IsRequest(request)
  PROVE  /\ IsPlain(Named(request).name) /\ Named(request).name # NoText
         /\ request.source = Env =>
              /\ Named(request) = Variable(Sanitized(request.env))
              /\ Named(request).name = Sanitized(request.env)
         /\ request.source # Env => Named(request) = File(Named(request).name)
         /\ WritesKey(request) => Named(request).name = SecretPath(request.provider)
<1>1. /\ request.provider \in Providers
      /\ IsText(request.env) /\ IsText(request.ref)
      /\ request.source = Env => request.env # NoText
      /\ request.source = Existing => request.ref # NoText
  BY DEF IsRequest, TextFields
<1>2. \A name : Variable(name).name = name /\ File(name).name = name
  BY DEF Variable, File
<1>3. Env # Existing
  BY DEF Env, Existing
<1>4. CASE request.source = Env
  <2>1. Named(request) = Variable(Sanitized(request.env)) /\ ~WritesKey(request)
    BY <1>4, <1>3 DEF Named, WritesKey
  <2> QED
    BY <1>1, <1>2, <1>4, <2>1, SanitizedText
<1>5. CASE request.source = Existing
  <2>1. Named(request) = File(Sanitized(request.ref)) /\ ~WritesKey(request)
    BY <1>5, <1>3 DEF Named, WritesKey
  <2> QED
    BY <1>1, <1>2, <1>3, <1>5, <2>1, SanitizedText
<1>6. CASE WritesKey(request)
  <2>1. /\ Named(request) = File(SecretPath(request.provider))
        /\ request.source # Env /\ request.source # Existing
    BY <1>6 DEF Named, WritesKey
  <2>2. Named(request).name = SecretPath(request.provider)
    BY <1>2, <2>1
  <2>3. Named(request) = File(Named(request).name)
    BY Zenon, <2>1, <2>2
  <2>4. IsPlain(SecretPath(request.provider)) /\ SecretPath(request.provider) # NoText
    BY <1>1, NameIs
  <2> QED
    BY Zenon, <2>1, <2>2, <2>3, <2>4
<1> QED
  BY <1>1, <1>4, <1>5, <1>6 DEF WritesKey

\* What a call appends, as a load reads it, is a stored record; and it refers to
\* what the call named, unless that is a variable with a ',' in its name.
LEMMA AppendedIsStored ==
  ASSUME NEW request, IsRequest(request), NEW n, n \in 0..count, 0 \in 0..count,
         NEW stored, stored = ReadBack(Record(request, n))
  PROVE  IsStored(request.provider, stored) /\ Survives(stored)
<1> DEFINE r == Record(request, n)
<1>1. /\ request.provider \in Providers /\ IsText(request.source)
      /\ request.enabled \in BOOLEAN
      /\ IsText(request.display) /\ IsText(request.model) /\ IsText(request.endpoint)
      /\ IsText(request.env) /\ IsText(request.ref)
  BY DEF IsRequest, TextFields
<1>2. r.enabled = request.enabled /\ r.inline = (request.source = Env)
  BY Zenon, RecordFields
<1>3. /\ DOMAIN r = RecordDomain
      /\ r.display = Sanitized(Given(request.display, <<request.provider>>))
      /\ r.model = Sanitized(request.model)
      /\ r.endpoint = Given(request.endpoint, DefaultFor(request.provider))
      /\ r.source = request.source
      /\ r.reference = Named(request).name /\ r.named = Named(request)
      /\ r.env = (IF request.source = Env THEN Sanitized(request.env) ELSE NoText)
      /\ r.ref = (IF request.source = Existing THEN Sanitized(request.ref) ELSE NoText)
      /\ r.by = (IF WritesKey(request) THEN n ELSE NoKey)
  BY RecordFields
<1> HIDE DEF r
<1>4. stored = ReadBack(r)
  BY DEF r
<1>5. stored.enabled = r.enabled /\ stored.inline = r.inline
  BY Zenon, <1>3, <1>4, ReadBackFields
<1>6. /\ stored.display = r.display
      /\ stored.reference = r.reference /\ stored.named = r.named /\ stored.by = r.by
      /\ IF IsPlain(r.endpoint)
         THEN /\ stored.endpoint = Before(r.endpoint, ",") /\ stored.env = Before(r.env, ",")
              /\ stored.ref = Before(r.ref, ",") /\ stored.model = Before(r.model, ",")
              /\ stored.source = Before(Before(r.source, ";"), ",")
         ELSE /\ stored.endpoint = Before(Before(r.endpoint, ";"), ",") /\ stored.env = NoText
              /\ stored.ref = NoText /\ stored.model = NoText /\ stored.source = NoText
  BY Zenon, <1>3, <1>4, ReadBackFields
<1>7. IsText(r.display) /\ IsPlain(r.display) /\ r.display # NoText
  <2>1. IsText(Given(request.display, <<request.provider>>))
        /\ Given(request.display, <<request.provider>>) # NoText
    BY <1>1, NameIs DEF Given
  <2> QED
    BY <1>3, <2>1, SanitizedText
<1>8. IsText(r.endpoint)
  BY <1>1, <1>3, NoTextIs, ProviderAssumption DEF Given, DefaultFor
<1>9. /\ IsText(r.model) /\ IsPlain(r.model) /\ IsText(r.env) /\ IsPlain(r.env)
      /\ IsText(r.ref) /\ IsPlain(r.ref)
  <2>1. IsPlain(NoText)
    BY NoTextIs DEF IsSetting
  <2>2. \A text : IsText(text) => IsText(Sanitized(text)) /\ IsPlain(Sanitized(text))
    BY SanitizedText
  <2> QED
    BY <1>1, <1>3, <2>1, <2>2, NoTextIs
<1>10. /\ IsSetting(stored.model) /\ IsSetting(stored.endpoint)
       /\ IsSetting(stored.env) /\ IsSetting(stored.ref) /\ IsSetting(stored.source)
  <2>1. \A text : IsText(text) =>
          /\ IsPlain(text) => IsSetting(Before(text, ","))
          /\ IsSetting(Before(Before(text, ";"), ","))
    BY SettingBefore
  <2> QED
    BY <1>1, <1>3, <1>6, <1>8, <1>9, <2>1, NoTextIs
<1>11. /\ IsPlain(r.reference) /\ r.reference # NoText
       /\ r.by # NoKey => r.reference = SecretPath(request.provider)
  BY <1>3, NamedIs
<1>12. stored.by \in 0..count
  BY <1>1, <1>3, <1>6 DEF NoKey
<1>13. stored.enabled \in BOOLEAN /\ stored.inline \in BOOLEAN
  BY Zenon, <1>1, <1>2, <1>5
<1>14. IsStored(request.provider, stored)
  BY <1>6, <1>7, <1>10, <1>11, <1>12, <1>13 DEF IsStored
<1>15. ASSUME request.source = Env PROVE Survives(stored)
  <2>1. stored.inline = TRUE /\ r.inline = TRUE
    BY Zenon, <1>2, <1>5, <1>15
  <2>2. stored.named = Variable(r.env) /\ r.reference = r.env /\ stored.named.name = r.env
    BY <1>3, <1>6, <1>15, NamedIs
  <2>3. Reference(stored) = Variable(IF stored.source = NoText THEN stored.reference ELSE stored.env)
    BY Zenon, <2>1 DEF Reference
  <2>4. CASE "," \in ToSet(r.env)
    BY Zenon, <2>1, <2>2, <2>4 DEF Survives
  <2>5. CASE "," \notin ToSet(r.env)
    <3>1. Before(r.env, ",") = r.env
      BY <1>9, <2>5, BeforeText
    <3>2. (IF stored.source = NoText THEN stored.reference ELSE stored.env) = r.env
      <4>1. CASE IsPlain(r.endpoint)
        BY <1>6, <2>2, <3>1, <4>1
      <4>2. CASE ~IsPlain(r.endpoint)
        BY <1>6, <2>2, <4>2
      <4> QED
        BY <4>1, <4>2
    <3> QED
      BY Zenon, <2>2, <2>3, <3>2 DEF Survives
  <2> QED
    BY <2>4, <2>5
<1>16. ASSUME request.source # Env PROVE Survives(stored)
  <2>1. stored.inline = FALSE
    BY Zenon, <1>2, <1>5, <1>16
  <2>2. stored.named = File(r.reference) /\ stored.reference = r.reference
    BY <1>3, <1>6, <1>16, NamedIs
  <2>3. Reference(stored) = File(Given(stored.reference, stored.ref))
    BY Zenon, <2>1 DEF Reference
  <2>4. Given(stored.reference, stored.ref) = r.reference
    BY <1>11, <2>2 DEF Given
  <2> QED
    BY Zenon, <2>2, <2>3, <2>4 DEF Survives
<1> QED
  BY <1>14, <1>15, <1>16


-----------------------------------------------------------------------------
(* What makes the types inductive, and what ties the window to the file *)

TablesOK == IsTable(file) /\ IsTable(console.loaded) /\ ReferencesSurvive

CallsOK == DOMAIN calls = Callers /\ \A c \in Callers : IsCall(calls[c])

FlagsOK ==
  /\ onWindows \in BOOLEAN /\ ruined \in BOOLEAN /\ count \in 0..MaxCalls
  /\ secrets \in [Providers -> Keys]
  /\ console.open \in BOOLEAN /\ window.open \in BOOLEAN /\ (window.open => onWindows)
  /\ troubled \in [Providers -> BOOLEAN] /\ overtaken \subseteq Providers

LEMMA TypeIsParts ==
  ProviderTypeOK /\ ReferencesSurvive <=> TablesOK /\ CallsOK /\ FlagsOK
  BY Zenon DEF ProviderTypeOK, TablesOK, CallsOK, FlagsOK

\* The fields of the form that were not edited are those of the list.
FollowsListed(form, listed, edited) ==
  /\ "display" \in edited \/ form.display = listed.display
  /\ "model" \in edited \/ form.model = listed.model
  /\ "source" \in edited \/ form.source = Chosen(listed.source)
  /\ "enabled" \in edited \/ form.enabled = listed.enabled
  /\ "env" \in edited \/ form.env = IF listed.env = Unset THEN NoText ELSE listed.env
  /\ "ref" \in edited \/ form.ref = IF listed.ref = Unset THEN NoText ELSE listed.ref

WindowShape ==
  /\ DOMAIN window = {"open", "shown", "selected", "form", "edited"}
  /\ DOMAIN window.form = EditFields /\ window.form.source \in Sources

\* What is listed is on disk, unless a record was appended since.
ListFits ==
  \A p \in Providers \ overtaken : window.shown[p] # NoRecord =>
    file[p] # NoRecord /\ window.shown[p] = Listed(file[p])

FormFits ==
  LET p == window.form.provider IN
  p \in Providers /\ "provider" \notin window.edited =>
    window.shown[p] # NoRecord /\ FollowsListed(window.form, window.shown[p], window.edited)

\* While the window's call runs, the form is what was saved.
WindowCallFits ==
  calls[Window] # Idle =>
    window.open /\ calls[Window].request = FormRequest(window.form)

StoredInv ==
  TablesOK /\ CallsOK /\ FlagsOK /\ WindowShape /\ ListFits /\ FormFits /\ WindowCallFits

-----------------------------------------------------------------------------
LEMMA TablesKept ==
  ASSUME TablesOK, count \in Nat, count' \in Nat, count <= count', file' = file,
         console'.loaded = console.loaded \/ console'.loaded = file \/ console'.loaded = NoTable
  PROVE  TablesOK'
<1>1. \A r : \A p \in Providers : IsStored(p, r) => IsStored(p, r)'
  BY DEF IsStored
<1>2. IsTable(file)' /\ IsTable(console.loaded)'
  <2>1. IsTable(file)'
    BY <1>1 DEF TablesOK, IsTable
  <2>2. CASE console'.loaded = console.loaded
    BY <1>1, <2>2 DEF TablesOK, IsTable
  <2>3. CASE console'.loaded = file
    BY <1>1, <2>3 DEF TablesOK, IsTable
  <2>4. CASE console'.loaded = NoTable
    BY <2>1, <2>4 DEF IsTable, NoTable
  <2> QED
    BY Zenon, <2>1, <2>2, <2>3, <2>4
<1>3. ReferencesSurvive'
  <2>1. \A p \in Providers : NoTable[p] = NoRecord
    BY DEF NoTable
  <2> QED
    BY <2>1 DEF TablesOK, ReferencesSurvive
<1> QED
  BY <1>2, <1>3 DEF TablesOK

LEMMA CallsKept ==
  ASSUME CallsOK, count \in Nat, count' \in Nat, count <= count', DOMAIN calls' = Callers,
         \A c \in Callers :
           calls'[c] = calls[c] \/ calls'[c] = Idle \/ IsCall(calls[c])'
  PROVE  CallsOK'
<1>1. \A c \in Callers : IsCall(calls[c]) /\ calls'[c] = calls[c] => IsCall(calls[c])'
  BY DEF IsCall
<1>2. \A c \in Callers : calls'[c] = Idle => IsCall(calls[c])'
  BY DEF IsCall
<1> QED
  BY <1>1, <1>2 DEF CallsOK

LEMMA ClosedIs ==
  /\ ClosedWindow.open = FALSE /\ ClosedWindow.shown = NoTable /\ ClosedWindow.form = BlankForm
  /\ DOMAIN ClosedWindow = {"open", "shown", "selected", "form", "edited"}
  /\ DOMAIN BlankForm = EditFields /\ BlankForm.provider = NoProvider
  /\ BlankForm.source \in Sources
  /\ ClosedConsole.open = FALSE /\ ClosedConsole.loaded = NoTable
<1>1. /\ ClosedWindow.open = FALSE /\ ClosedWindow.shown = NoTable /\ ClosedWindow.form = BlankForm
      /\ DOMAIN ClosedWindow = {"open", "shown", "selected", "form", "edited"}
  BY Zenon DEF ClosedWindow
<1>2. DOMAIN BlankForm = {"provider", "display", "model", "source", "env", "ref", "enabled", "key"}
      /\ BlankForm.provider = NoProvider /\ BlankForm.source = Direct
  BY Zenon DEF BlankForm
<1>3. ClosedConsole.open = FALSE /\ ClosedConsole.loaded = NoTable
  BY Zenon DEF ClosedConsole
<1> QED
  BY <1>1, <1>2, <1>3 DEF EditFields, Sources

LEMMA StoredInitially == ProviderInit => StoredInv
<1> SUFFICES ASSUME ProviderInit PROVE StoredInv
  OBVIOUS
<1>1. /\ onWindows \in BOOLEAN /\ ruined = FALSE /\ count = 0 /\ overtaken = {}
      /\ file = NoTable /\ secrets = [p \in Providers |-> NoKey]
      /\ calls = [c \in Callers |-> Idle] /\ troubled = [p \in Providers |-> FALSE]
      /\ console.open = FALSE /\ console.loaded = NoTable
      /\ window = ClosedWindow /\ window.open = FALSE /\ window.shown = NoTable
      /\ window.form = BlankForm
  BY Zenon, ClosedIs DEF ProviderInit
<1>2. TablesOK
  BY <1>1 DEF TablesOK, IsTable, NoTable, ReferencesSurvive
<1>3. CallsOK
  BY <1>1 DEF CallsOK, IsCall
<1>4. FlagsOK
  <2>1. secrets \in [Providers -> Keys] /\ count \in 0..MaxCalls
    <3>1. MaxCalls \in Nat
      BY ProviderAssumption
    <3>2. 0 \in Keys /\ count \in 0..MaxCalls
      BY <1>1, <3>1 DEF Keys, EnvironmentKey
    <3>3. secrets = [p \in Providers |-> 0]
      BY <1>1 DEF NoKey
    <3> QED
      BY <3>2, <3>3
  <2>2. troubled \in [Providers -> BOOLEAN]
    BY Zenon, <1>1
  <2> QED
    BY <1>1, <2>1, <2>2 DEF FlagsOK
<1>5. WindowShape
  BY <1>1, ClosedIs DEF WindowShape
<1>6. ListFits
  BY <1>1 DEF ListFits, NoTable
<1>7. FormFits
  BY <1>1, ClosedIs, ProviderAssumption DEF FormFits
<1>8. WindowCallFits
  BY <1>1, ProviderAssumption DEF WindowCallFits
<1> QED
  BY <1>2, <1>3, <1>4, <1>5, <1>6, <1>7, <1>8 DEF StoredInv

-----------------------------------------------------------------------------
\* The window's part holds while neither the window nor its call begins anything.
LEMMA WindowKept ==
  ASSUME StoredInv, UNCHANGED <<window, file, overtaken>>,
         \/ calls'[Window] = calls[Window] \/ calls'[Window] = Idle
         \/ calls[Window] # Idle /\ calls'[Window].request = calls[Window].request
  PROVE  WindowShape' /\ ListFits' /\ FormFits' /\ WindowCallFits'
<1>1. WindowShape' /\ ListFits' /\ FormFits'
  BY DEF StoredInv, WindowShape, ListFits, FormFits
<1>2. WindowCallFits'
  BY DEF StoredInv, WindowCallFits
<1> QED
  BY <1>1, <1>2

LEMMA CountIs ==
  StoredInv => count \in Nat /\ 0 \in 0..count /\ count <= MaxCalls /\ MaxCalls \in Nat
<1>1. MaxCalls \in Nat
  BY Zenon, ProviderAssumption
<1>2. StoredInv => count \in 0..MaxCalls
  BY Zenon DEF StoredInv, FlagsOK
<1> QED
  BY <1>1, <1>2

LEMMA BeginSetTyped ==
  ASSUME StoredInv, NEW c \in Callers, NEW request, IsRequest(request), BeginSet(c, request),
         c = Window => window.open /\ request = FormRequest(window.form)
  PROVE  StoredInv'
<1> DEFINE call == [stage |-> FirstStep(request), request |-> request, number |-> count + 1,
                    clean |-> TRUE]
<1>1. /\ calls' = [calls EXCEPT ![c] = call] /\ count' = count + 1 /\ count < MaxCalls
      /\ UNCHANGED <<onWindows, file, ruined, secrets, console, window, troubled, overtaken>>
  BY Zenon DEF BeginSet, disk
<1>2. call.stage = FirstStep(request) /\ call.request = request /\ call.number = count + 1
  BY Zenon
<1>3. call.clean \in BOOLEAN
  BY Zenon
<1> HIDE DEF call
<1>4. count \in Nat /\ count' \in Nat /\ count <= count' /\ count' \in 0..MaxCalls
  BY <1>1, CountIs
<1>5. /\ DOMAIN calls' = Callers /\ calls'[c] = call
      /\ \A d \in Callers \ {c} : calls'[d] = calls[d]
  BY <1>1 DEF StoredInv, CallsOK
<1>6. IsCall(calls[c])'
  BY <1>2, <1>3, <1>4, <1>5, <1>1 DEF IsCall, FirstStep
<1>7. CallsOK'
  BY <1>4, <1>5, <1>6, CallsKept DEF StoredInv
<1>8. TablesOK'
  BY <1>1, <1>4, TablesKept DEF StoredInv
<1>9. FlagsOK'
  BY <1>1, <1>4 DEF StoredInv, FlagsOK
<1>10. WindowShape' /\ ListFits' /\ FormFits'
  BY <1>1 DEF StoredInv, WindowShape, ListFits, FormFits
<1>11. WindowCallFits'
  BY <1>1, <1>2, <1>5, ProviderAssumption DEF StoredInv, WindowCallFits
<1> QED
  BY <1>7, <1>8, <1>9, <1>10, <1>11 DEF StoredInv

LEMMA WriteSecretTyped ==
  ASSUME IInv, StoredInv, NEW c \in Callers, WriteSecret(c) PROVE StoredInv'
<1> DEFINE p == calls[c].request.provider
           others == {d \in Callers \ {c} : IsMidway(d, p)}
<1>1. PICK key \in {calls[c].number, NoKey, secrets[p]} :
        /\ secrets' = [secrets EXCEPT ![p] = key]
        /\ calls' = [d \in Callers |->
             IF d = c THEN [calls[c] EXCEPT !.stage = "record",
                                            !.clean = others = {} /\ key = calls[c].number]
             ELSE IF d \in others THEN [calls[d] EXCEPT !.clean = FALSE] ELSE calls[d]]
  BY Zenon DEF WriteSecret
<1>2. /\ calls[c].stage = "secret"
      /\ UNCHANGED <<onWindows, file, ruined, console, window, count, troubled, overtaken>>
  BY DEF WriteSecret, history
<1>3. calls[c] # Idle /\ IsCallRecord(calls[c]) /\ IsCall(calls[c])
  BY <1>2, IdleStage DEF IInv, CallsTyped, StoredInv, CallsOK
<1>4. \A d \in others :
        d \in Callers /\ d # c /\ calls[d] # Idle /\ IsCallRecord(calls[d]) /\ IsCall(calls[d])
  BY IdleStage DEF IInv, CallsTyped, IsMidway, StoredInv, CallsOK
<1>5. p \in Providers /\ calls[c].number \in 1..count /\ IsRequest(calls[c].request)
  BY <1>3 DEF IsCall, IsCallRecord
<1>6. /\ IsCall(calls[c])' /\ calls'[c].request = calls[c].request
  <2> DEFINE b == others = {} /\ key = calls[c].number
  <2>1. calls'[c] = [calls[c] EXCEPT !.stage = "record", !.clean = b]
    BY <1>1
  <2>2. b \in BOOLEAN
    BY Zenon
  <2> HIDE DEF b
  <2>3. /\ calls'[c].stage = "record" /\ calls'[c].clean = b
        /\ calls'[c].request = calls[c].request /\ calls'[c].number = calls[c].number
    BY <1>3, <2>1 DEF IsCallRecord
  <2> QED
    BY <1>2, <1>5, <2>2, <2>3 DEF IsCall
<1>7. \A d \in others : IsCall(calls[d])' /\ calls'[d].request = calls[d].request
  <2> SUFFICES ASSUME NEW d \in others
               PROVE  IsCall(calls[d])' /\ calls'[d].request = calls[d].request
    OBVIOUS
  <2>1. calls'[d] = [calls[d] EXCEPT !.clean = FALSE]
    BY <1>1, <1>4
  <2>2. PICK b \in BOOLEAN : b = FALSE
    OBVIOUS
  <2>3. calls'[d] = [calls[d] EXCEPT !.clean = b]
    BY <2>1, <2>2
  <2>4. /\ calls'[d].stage = calls[d].stage /\ calls'[d].clean = b
        /\ calls'[d].request = calls[d].request /\ calls'[d].number = calls[d].number
    BY <1>4, <2>3 DEF IsCallRecord
  <2> QED
    BY <1>2, <1>4, <2>2, <2>4 DEF IsCall
<1>8. \A d \in Callers \ ({c} \union others) : calls'[d] = calls[d]
  BY <1>1
<1>9. DOMAIN calls' = Callers
  BY <1>1
<1>10. secrets' \in [Providers -> Keys]
  <2>1. 1..count \subseteq Keys /\ NoKey \in Keys
    BY CountIs DEF Keys, EnvironmentKey, NoKey
  <2>2. key \in Keys
    BY <1>5, <2>1 DEF StoredInv, FlagsOK
  <2> QED
    BY <1>1, <2>2 DEF StoredInv, FlagsOK
<1> HIDE DEF others
<1>11. CallsOK'
  <2>1. \A d \in Callers : calls'[d] = calls[d] \/ IsCall(calls[d])'
    BY Zenon, <1>6, <1>7, <1>8
  <2> QED
    BY <1>2, <1>9, <2>1, CountIs, CallsKept DEF StoredInv
<1>12. TablesOK'
  BY <1>2, CountIs, TablesKept DEF StoredInv
<1>13. FlagsOK'
  BY <1>2, <1>10 DEF StoredInv, FlagsOK
<1>14. \/ calls'[Window] = calls[Window] \/ calls'[Window] = Idle
       \/ calls[Window] # Idle /\ calls'[Window].request = calls[Window].request
  BY <1>3, <1>4, <1>6, <1>7, <1>8, ProviderAssumption DEF StoredInv
<1> QED
  BY <1>2, <1>11, <1>12, <1>13, <1>14, WindowKept DEF StoredInv

LEMMA AppendRecordTyped ==
  ASSUME IInv, StoredInv, NEW c \in Callers, AppendRecord(c) PROVE StoredInv'
<1> DEFINE request == calls[c].request
           p == request.provider
           record == Record(request, calls[c].number)
           stored == ReadBack(record)
<1>1. /\ calls[c].stage = "record" /\ file' = [file EXCEPT ![p] = stored]
      /\ calls' = [calls EXCEPT ![c].stage = "manifest"]
      /\ troubled' = IF WritesKey(request) THEN [troubled EXCEPT ![p] = ~calls[c].clean]
                     ELSE troubled
      /\ ruined' = (ruined \/ IsMalformed(record)) /\ overtaken' = overtaken \union {p}
      /\ UNCHANGED <<onWindows, secrets, console, window, count>>
  BY Zenon DEF AppendRecord
<1>2. calls[c] # Idle /\ IsCallRecord(calls[c]) /\ IsCall(calls[c])
  BY <1>1, IdleStage DEF IInv, CallsTyped, StoredInv, CallsOK
<1>3. p \in Providers /\ IsRequest(request) /\ calls[c].number \in 1..count
  BY <1>2 DEF IsCall, IsCallRecord
<1>4. IsStored(p, stored) /\ Survives(stored)
  BY <1>3, CountIs, AppendedIsStored
<1> HIDE DEF request, p, record, stored
<1>5. /\ DOMAIN file' = Providers /\ file'[p] = stored
      /\ \A q \in Providers : q # p => file'[q] = file[q]
  BY <1>1, <1>3 DEF StoredInv, TablesOK, IsTable
<1>6. IsTable(file)' /\ IsTable(console.loaded)'
  <2>1. \A r : \A q \in Providers : IsStored(q, r) => IsStored(q, r)'
    BY <1>1 DEF IsStored
  <2>2. \A q \in Providers : file'[q] = NoRecord \/ IsStored(q, file'[q])
    BY <1>4, <1>5 DEF StoredInv, TablesOK, IsTable
  <2> QED
    BY <1>1, <1>5, <2>1, <2>2 DEF StoredInv, TablesOK, IsTable
<1>7. ReferencesSurvive'
  BY <1>1, <1>4, <1>5 DEF StoredInv, TablesOK, ReferencesSurvive
<1>8. /\ DOMAIN calls' = Callers /\ calls'[c] = [calls[c] EXCEPT !.stage = "manifest"]
      /\ \A d \in Callers \ {c} : calls'[d] = calls[d]
  BY <1>1 DEF StoredInv, CallsOK
<1>9. /\ calls'[c].stage = "manifest" /\ calls'[c].request = calls[c].request
      /\ calls'[c].number = calls[c].number /\ calls'[c].clean = calls[c].clean
  BY <1>2, <1>8 DEF IsCallRecord
<1>10. IsCall(calls[c])'
  BY <1>1, <1>2, <1>9 DEF IsCall
<1>11. CallsOK'
  BY <1>1, <1>8, <1>10, CountIs, CallsKept DEF StoredInv
<1>12. FlagsOK'
  <2>1. troubled' \in [Providers -> BOOLEAN]
    BY <1>1 DEF StoredInv, FlagsOK
  <2>2. ruined' \in BOOLEAN
    BY Zenon, <1>1
  <2>3. overtaken' \subseteq Providers
    BY <1>1, <1>3 DEF StoredInv, FlagsOK
  <2> QED
    BY Zenon, <1>1, <2>1, <2>2, <2>3 DEF StoredInv, FlagsOK
<1>13. WindowShape' /\ ListFits' /\ FormFits'
  BY <1>1, <1>5 DEF StoredInv, WindowShape, ListFits, FormFits
<1>14. WindowCallFits'
  BY <1>1, <1>2, <1>8, <1>9, ProviderAssumption DEF StoredInv, WindowCallFits
<1> QED
  BY <1>6, <1>7, <1>11, <1>12, <1>13, <1>14 DEF StoredInv, TablesOK

\* A call that is over, whether its process lives on or not.
LEMMA EndedTyped ==
  ASSUME StoredInv, NEW c \in Callers,
         UNCHANGED <<onWindows, file, ruined, secrets, count, overtaken>>,
         calls' = [calls EXCEPT ![c] = Idle],
         troubled' = troubled \/ troubled' = TroubledBy(c),
         console' = console \/ console' = ClosedConsole,
         window' = window \/ (c = Window /\ window' = ClosedWindow)
  PROVE  StoredInv'
<1>1. /\ DOMAIN calls' = Callers /\ calls'[c] = Idle
      /\ \A d \in Callers \ {c} : calls'[d] = calls[d]
  BY DEF StoredInv, CallsOK
<1>2. CallsOK'
  BY <1>1, CountIs, CallsKept DEF StoredInv
<1>3. TablesOK'
  BY CountIs, ClosedIs, TablesKept DEF StoredInv
<1>4. FlagsOK'
  <2>1. troubled' \in [Providers -> BOOLEAN]
    BY DEF StoredInv, FlagsOK, TroubledBy, IsMidway
  <2>2. console'.open \in BOOLEAN /\ window'.open \in BOOLEAN /\ (window'.open => onWindows)
    BY Zenon, ClosedIs DEF StoredInv, FlagsOK
  <2> QED
    BY <2>1, <2>2 DEF StoredInv, FlagsOK
<1>5. CASE window' = window
  <2>1. calls'[Window] = calls[Window] \/ calls'[Window] = Idle
    BY <1>1, ProviderAssumption
  <2> QED
    BY <1>2, <1>3, <1>4, <1>5, <2>1, WindowKept DEF StoredInv
<1>6. CASE c = Window /\ window' = ClosedWindow
  <2>1. WindowShape'
    BY <1>6, ClosedIs DEF WindowShape
  <2>2. ListFits'
    BY <1>6, ClosedIs DEF ListFits, NoTable
  <2>3. FormFits'
    BY <1>6, ClosedIs, ProviderAssumption DEF FormFits
  <2>4. WindowCallFits'
    BY <1>1, <1>6 DEF WindowCallFits
  <2> QED
    BY <1>2, <1>3, <1>4, <2>1, <2>2, <2>3, <2>4 DEF StoredInv
<1> QED
  BY <1>5, <1>6

\* What PopulateFromSelection puts in the form follows the list.
LEMMA PopulatedFits ==
  ASSUME NEW shown, NEW p \in Providers, NEW form, form = Populated(shown, p)
  PROVE  /\ DOMAIN form = EditFields /\ form.provider = p /\ form.source \in Sources
         /\ FollowsListed(form, shown[p], {})
<1>1. DOMAIN form = {"provider", "display", "model", "source", "env", "ref", "enabled", "key"}
  BY Zenon DEF Populated
<1>2. /\ form.provider = p /\ form.source = Chosen(shown[p].source)
      /\ FollowsListed(form, shown[p], {})
  BY Zenon DEF Populated, FollowsListed
<1> QED
  BY <1>1, <1>2 DEF EditFields, Chosen, Sources

\* A list that was read now, and the form that was filled from it.
LEMMA RefreshedFits ==
  ASSUME StoredInv, Refreshed(window'), file' = file, overtaken' = {}
  PROVE  WindowShape' /\ ListFits' /\ FormFits' /\ window'.open = TRUE
<1>1. PICK p \in Providers \union {NoProvider} :
        /\ IF \E q \in Providers : Listing[q] # NoRecord
           THEN p \in Providers /\ Listing[p] # NoRecord ELSE p = NoProvider
        /\ window' = [open |-> TRUE, shown |-> Listing, selected |-> p, edited |-> {},
                      form |-> IF p = NoProvider THEN BlankForm ELSE Populated(Listing, p)]
  BY Zenon DEF Refreshed
<1>2. /\ DOMAIN window' = {"open", "shown", "selected", "form", "edited"}
      /\ window'.shown = Listing /\ window'.edited = {}
      /\ window'.form = (IF p = NoProvider THEN BlankForm ELSE Populated(Listing, p))
  BY Zenon, <1>1
<1>3. window'.open = TRUE
  BY Zenon, <1>1
<1>4. \A q \in Providers : Listing[q] # NoRecord => file[q] # NoRecord /\ Listing[q] = Listed(file[q])
  BY Zenon DEF Listing
<1>5. ListFits'
  BY <1>2, <1>4 DEF ListFits
<1>6. CASE p = NoProvider
  BY <1>2, <1>3, <1>5, <1>6, ClosedIs, ProviderAssumption DEF WindowShape, FormFits
<1>7. CASE p # NoProvider
  <2>1. window'.form = Populated(window'.shown, p) /\ p \in Providers /\ window'.shown[p] # NoRecord
    BY <1>1, <1>2, <1>7
  <2> QED
    BY <1>2, <1>3, <1>5, <2>1, PopulatedFits DEF WindowShape, FormFits
<1> QED
  BY <1>6, <1>7

LEMMA WriteManifestTyped ==
  ASSUME IInv, StoredInv, NEW c \in Callers, WriteManifest(c) PROVE StoredInv'
<1>1. /\ calls[c].stage = "manifest" /\ calls' = [calls EXCEPT ![c] = Idle]
      /\ UNCHANGED <<onWindows, file, ruined, secrets, console, count, troubled>>
  BY DEF WriteManifest, disk
<1>2. CASE UNCHANGED <<window, overtaken>>
  BY <1>1, <1>2, EndedTyped
<1>3. CASE c = Window /\ Refreshed(window') /\ overtaken' = {}
  <2>1. /\ DOMAIN calls' = Callers /\ calls'[c] = Idle
        /\ \A d \in Callers \ {c} : calls'[d] = calls[d]
    BY <1>1 DEF StoredInv, CallsOK
  <2>2. CallsOK' /\ TablesOK'
    BY <1>1, <2>1, CountIs, CallsKept, TablesKept DEF StoredInv
  <2>3. WindowShape' /\ ListFits' /\ FormFits' /\ window'.open = TRUE
    BY <1>1, <1>3, RefreshedFits
  <2>4. window.open
    BY <1>1, <1>3, IdleStage DEF StoredInv, WindowCallFits
  <2>5. FlagsOK'
    BY Zenon, <1>1, <1>3, <2>3, <2>4 DEF StoredInv, FlagsOK
  <2>6. WindowCallFits'
    BY <1>3, <2>1 DEF WindowCallFits
  <2> QED
    BY <2>2, <2>3, <2>5, <2>6 DEF StoredInv
<1> QED
  BY Zenon, <1>2, <1>3 DEF WriteManifest

\* A step of the window between its calls.
LEMMA ViewTyped ==
  ASSUME StoredInv, UNCHANGED <<onWindows, file, ruined, secrets, calls, count, troubled>>,
         console' = console \/ (console'.open = TRUE /\ console'.loaded = file),
         window' = window \/ (window'.open = TRUE /\ onWindows /\ calls[Window] = Idle),
         overtaken' \subseteq Providers, WindowShape', ListFits', FormFits'
  PROVE  StoredInv'
<1>1. CallsOK' /\ TablesOK'
  BY CountIs, CallsKept, TablesKept DEF StoredInv, CallsOK
<1>2. FlagsOK'
  BY Zenon DEF StoredInv, FlagsOK
<1>3. WindowCallFits'
  BY DEF StoredInv, WindowCallFits
<1> QED
  BY <1>1, <1>2, <1>3 DEF StoredInv

LEMMA RefreshTyped == ASSUME StoredInv, Refresh PROVE StoredInv'
<1>1. /\ onWindows /\ calls[Window] = Idle /\ Refreshed(window') /\ overtaken' = {}
      /\ UNCHANGED <<onWindows, file, ruined, secrets, calls, console, count, troubled>>
  BY Zenon DEF Refresh, disk
<1>2. WindowShape' /\ ListFits' /\ FormFits' /\ window'.open = TRUE
  BY <1>1, RefreshedFits
<1> QED
  BY <1>1, <1>2, ViewTyped

LEMMA WindowIsFree ==
  ASSUME StoredInv, IsFree(Window) PROVE window.open = TRUE /\ onWindows /\ calls[Window] = Idle
<1>1. IsUp(Window) = window.open
  BY Zenon, ProviderAssumption DEF IsUp
<1> QED
  BY Zenon, <1>1 DEF IsFree, StoredInv, FlagsOK

LEMMA SelectTyped == ASSUME StoredInv, NEW p \in Providers, Select(p) PROVE StoredInv'
<1> DEFINE form == Populated(window.shown, p)
<1>1. /\ IsFree(Window) /\ window.shown[p] # NoRecord
      /\ window' = [window EXCEPT !.selected = p, !.form = form, !.edited = {}]
      /\ UNCHANGED <<onWindows, file, ruined, secrets, calls, console, count, troubled, overtaken>>
  BY Zenon DEF Select, disk, history
<1>2. /\ DOMAIN form = EditFields /\ form.provider = p /\ form.source \in Sources
      /\ FollowsListed(form, window.shown[p], {})
  BY PopulatedFits
<1> HIDE DEF form
<1>3. /\ DOMAIN window' = DOMAIN window /\ window'.open = window.open /\ window'.shown = window.shown
      /\ window'.form = form /\ window'.edited = {}
  BY <1>1 DEF StoredInv, WindowShape
<1>4. WindowShape' /\ ListFits' /\ FormFits'
  BY <1>1, <1>2, <1>3 DEF StoredInv, WindowShape, ListFits, FormFits
<1>5. overtaken' \subseteq Providers
  BY <1>1 DEF StoredInv, FlagsOK
<1> QED
  BY <1>1, <1>3, <1>4, <1>5, WindowIsFree, ViewTyped

LEMMA EditTyped ==
  ASSUME StoredInv, NEW field \in EditFields, NEW value, Edit(field, value),
         field = "source" => value \in Sources
  PROVE  StoredInv'
<1> DEFINE form == [window.form EXCEPT ![field] = value]
<1>1. /\ IsFree(Window)
      /\ window' = [window EXCEPT !.form[field] = value, !.edited = @ \union {field}]
      /\ UNCHANGED <<onWindows, file, ruined, secrets, calls, console, count, troubled, overtaken>>
  BY Zenon DEF Edit, disk, history
<1>2. /\ DOMAIN form = EditFields /\ form.source \in Sources
      /\ \A other \in EditFields \ {field} : form[other] = window.form[other]
  BY DEF StoredInv, WindowShape, EditFields
<1>3. /\ DOMAIN window' = DOMAIN window /\ window'.open = window.open /\ window'.shown = window.shown
      /\ window'.form = form /\ window'.edited = window.edited \union {field}
  BY <1>1 DEF StoredInv, WindowShape
<1> HIDE DEF form
<1>4. WindowShape' /\ ListFits'
  BY <1>1, <1>2, <1>3 DEF StoredInv, WindowShape, ListFits
<1>5. FormFits'
  <2> SUFFICES ASSUME form.provider \in Providers, "provider" \notin window.edited \union {field}
               PROVE  /\ window.shown[form.provider] # NoRecord
                      /\ FollowsListed(form, window.shown[form.provider], window.edited \union {field})
    BY <1>3 DEF FormFits
  <2>1. form.provider = window.form.provider
    BY <1>2 DEF EditFields
  <2>2. /\ window.shown[form.provider] # NoRecord
        /\ FollowsListed(window.form, window.shown[form.provider], window.edited)
    BY <2>1 DEF StoredInv, FormFits
  <2>3. \A other \in {"display", "model", "source", "enabled", "env", "ref"} :
          other \notin window.edited \union {field} =>
            other \notin window.edited /\ form[other] = window.form[other]
    BY <1>2 DEF EditFields
  <2> QED
    BY <2>2, <2>3 DEF FollowsListed
<1>6. overtaken' \subseteq Providers
  BY <1>1 DEF StoredInv, FlagsOK
<1> QED
  BY <1>1, <1>3, <1>4, <1>5, <1>6, WindowIsFree, ViewTyped

LEMMA UnchangedTyped == ASSUME StoredInv, UNCHANGED vars PROVE StoredInv'
  BY DEF vars, StoredInv, TablesOK, CallsOK, FlagsOK, WindowShape, ListFits, FormFits,
     WindowCallFits, IsTable, IsStored, IsCall, ReferencesSurvive

LEMMA AskedTyped ==
  ASSUME StoredInv, NEW c \in Callers, NEW options, NEW outcome, Asked(c, options, outcome)
  PROVE  StoredInv'
<1>1. CASE Ended(c) /\ UNCHANGED <<onWindows, disk, count, overtaken>>
  BY <1>1, EndedTyped DEF Ended, disk
<1>2. CASE UNCHANGED vars
  BY <1>2, UnchangedTyped
<1> QED
  BY <1>1, <1>2 DEF Asked

LEMMA StoredStep == IInv /\ StoredInv /\ [ProviderNext]_vars => StoredInv'
<1> SUFFICES ASSUME IInv, StoredInv, [ProviderNext]_vars PROVE StoredInv'
  OBVIOUS
<1>1. CASE UNCHANGED vars
  BY <1>1, UnchangedTyped
<1>2. ASSUME NEW c \in Callers, CallStep(c) PROVE StoredInv'
  <2>1. CASE \E request \in Requests : c # Window /\ BeginSet(c, request)
    BY <2>1, BeginSetTyped, ProviderAssumption
  <2>2. CASE WriteSecret(c) \/ AppendRecord(c) \/ WriteManifest(c)
    BY <2>2, WriteSecretTyped, AppendRecordTyped, WriteManifestTyped
  <2>3. CASE AppendRefused(c)
    <3>1. /\ calls' = [calls EXCEPT ![c] = Idle] /\ troubled' = TroubledBy(c)
          /\ UNCHANGED <<onWindows, file, ruined, secrets, console, window, count, overtaken>>
      BY Zenon, <2>3 DEF AppendRefused, disk
    <3> QED
      BY <3>1, EndedTyped
  <2>4. CASE Die(c)
    <3>1. /\ calls' = [calls EXCEPT ![c] = Idle] /\ troubled' = TroubledBy(c)
          /\ UNCHANGED <<onWindows, file, ruined, secrets, count, overtaken>>
          /\ console' = console \/ console' = ClosedConsole
          /\ window' = window \/ (c = Window /\ window' = ClosedWindow)
      BY Zenon, <2>4 DEF Die, Ended, disk
    <3> QED
      BY <3>1, EndedTyped
  <2>5. CASE \E p \in Providers, outcome \in Outcomes : c # Window /\ TestProvider(c, p, outcome)
    BY <2>5, AskedTyped DEF TestProvider
  <2> QED
    BY <1>2, <2>1, <2>2, <2>3, <2>4, <2>5 DEF CallStep
<1>3. CASE WindowStep
  <2>1. CASE \E outcome \in Outcomes : TestCurrent(outcome)
    BY <2>1, AskedTyped, ProviderAssumption DEF TestCurrent, TestProvider
  <2>2. CASE Refresh \/ \E p \in Providers : Select(p)
    BY <2>2, RefreshTyped, SelectTyped
  <2>3. CASE Save
    BY <2>3, BeginSetTyped, ProviderAssumption DEF Save
  <2>4. CASE \E field \in DOMAIN Typed : \E value \in Typed[field] : Edit(field, value)
    <3>1. DOMAIN Typed \subseteq EditFields /\ Typed.source = Sources
      BY ProviderAssumption
    <3>2. PICK field \in DOMAIN Typed : \E value \in Typed[field] : Edit(field, value)
      BY <2>4
    <3>3. PICK value \in Typed[field] : Edit(field, value)
      BY <3>2
    <3>4. field \in EditFields /\ (field = "source" => value \in Sources)
      BY <3>1, <3>2, <3>3
    <3> QED
      BY <3>3, <3>4, EditTyped
  <2>5. CASE Edit("key", TRUE)
    <3>1. "key" \in EditFields
      BY DEF EditFields
    <3>2. "key" # "source"
      OBVIOUS
    <3> QED
      BY Zenon, <2>5, <3>1, <3>2, EditTyped
  <2> QED
    BY Zenon, <1>3, <2>1, <2>2, <2>3, <2>4, <2>5 DEF WindowStep
<1>4. CASE OpenConsole
  <2>1. /\ UNCHANGED <<onWindows, file, ruined, secrets, calls, count, troubled, window, overtaken>>
        /\ console'.open = TRUE /\ console'.loaded = file
    BY Zenon, <1>4 DEF OpenConsole, disk, history
  <2>2. /\ WindowShape' /\ ListFits' /\ FormFits' /\ overtaken' \subseteq Providers
    BY <2>1 DEF StoredInv, WindowShape, ListFits, FormFits, FlagsOK
  <2> QED
    BY <2>1, <2>2, ViewTyped
<1>5. CASE \E outcome \in Outcomes : ConsoleQuery(outcome)
  BY <1>5, AskedTyped, ProviderAssumption DEF ConsoleQuery
<1> QED
  BY <1>1, <1>2, <1>3, <1>4, <1>5 DEF ProviderNext

\* The types, the references and what ties the window to the file, together.
THEOREM StoredInvariant == ProviderSpec => []StoredInv
  BY StoredInitially, StoredStep, ProviderInvariant, PTL DEF ProviderSpec

\* Every variable has its type; and whatever is typed into a request, nothing a
\* load reads back still holds a separator that would have ended it
\* (sanitize_for_storage, encode_record, load).
THEOREM ProviderTyped == ProviderSpec => []ProviderTypeOK
<1>1. StoredInv => ProviderTypeOK
  BY Zenon, TypeIsParts DEF StoredInv
<1> QED
  BY <1>1, StoredInvariant, PTL

\* What the file loses of a record never changes where its key is read from, unless
\* a variable with a ',' in its name was given (load, provider_secret_status).
THEOREM ReferencesDoSurvive == ProviderSpec => []ReferencesSurvive
<1>1. StoredInv => ReferencesSurvive
  BY Zenon, TypeIsParts DEF StoredInv
<1> QED
  BY <1>1, StoredInvariant, PTL

-----------------------------------------------------------------------------
\* Only the window's own append takes its call from one stage to the other.
Appended == calls[Window].stage = "record" /\ calls'[Window].stage = "manifest"

LEMMA KeptOrIdle ==
  ASSUME StoredInv, NEW c \in Callers,
         calls' = [calls EXCEPT ![c] = Idle] \/ calls' = calls
  PROVE  ~Appended
<1>1. DOMAIN calls = Callers
  BY DEF StoredInv, CallsOK
<1>2. calls'[Window] = calls[Window] \/ calls'[Window] = Idle
  BY <1>1, ProviderAssumption
<1> QED
  BY <1>2, IdleStage DEF Appended

LEMMA AppendedIsAppend ==
  ASSUME IInv, StoredInv, [ProviderNext]_vars, Appended PROVE AppendRecord(Window)
<1>1. Window \in Callers /\ Console \in Callers /\ DOMAIN calls = Callers
  BY ProviderAssumption DEF StoredInv, CallsOK
<1>2. CASE UNCHANGED vars
  BY <1>1, <1>2, KeptOrIdle DEF vars
<1>3. ASSUME NEW c \in Callers, NEW options, NEW outcome PROVE ~Asked(c, options, outcome)
  <2>1. Asked(c, options, outcome) => calls' = [calls EXCEPT ![c] = Idle] \/ calls' = calls
    BY Zenon DEF Asked, Ended, vars
  <2> QED
    BY <2>1, KeptOrIdle
<1>4. ASSUME NEW c \in Callers, NEW request PROVE ~BeginSet(c, request)
  <2> SUFFICES ASSUME BeginSet(c, request) PROVE FALSE
    OBVIOUS
  <2> DEFINE call == [stage |-> FirstStep(request), request |-> request, number |-> count + 1,
                      clean |-> TRUE]
  <2>1. calls' = [calls EXCEPT ![c] = call] /\ call.stage = FirstStep(request)
    BY Zenon DEF BeginSet
  <2> HIDE DEF call
  <2>2. calls'[Window] = calls[Window] \/ calls'[Window] = call
    BY <1>1, <2>1
  <2> QED
    BY <2>1, <2>2 DEF FirstStep, Appended
<1>5. ASSUME NEW c \in Callers PROVE ~WriteSecret(c)
  <2> SUFFICES ASSUME WriteSecret(c) PROVE FALSE
    OBVIOUS
  <2> DEFINE others == {d \in Callers \ {c} : IsMidway(d, calls[c].request.provider)}
  <2>1. PICK b :
          calls' = [d \in Callers |->
            IF d = c THEN [calls[c] EXCEPT !.stage = "record", !.clean = b]
            ELSE IF d \in others THEN [calls[d] EXCEPT !.clean = FALSE] ELSE calls[d]]
    BY Zenon DEF WriteSecret
  <2>2. PICK no : no = FALSE
    OBVIOUS
  <2>3. \/ calls'[Window] = [calls[Window] EXCEPT !.stage = "record", !.clean = b]
        \/ calls'[Window] = [calls[Window] EXCEPT !.clean = no]
        \/ calls'[Window] = calls[Window]
    BY Zenon, <1>1, <2>1, <2>2
  <2>4. IsCallRecord(calls[Window])
    BY <1>1, IdleStage DEF Appended, IInv, CallsTyped
  <2> QED
    BY <2>3, <2>4 DEF IsCallRecord, Appended
<1>6. ASSUME NEW c \in Callers, AppendRecord(c) PROVE c = Window
  <2>1. calls' = [calls EXCEPT ![c].stage = "manifest"]
    BY Zenon, <1>6 DEF AppendRecord
  <2> QED
    BY <1>1, <2>1 DEF Appended
<1>7. ASSUME NEW c \in Callers PROVE ~(AppendRefused(c) \/ WriteManifest(c) \/ Die(c))
  <2>1. AppendRefused(c) \/ WriteManifest(c) \/ Die(c) => calls' = [calls EXCEPT ![c] = Idle]
    BY Zenon DEF AppendRefused, WriteManifest, Die, Ended
  <2> QED
    BY <2>1, KeptOrIdle
<1>8. ASSUME NEW c \in Callers, CallStep(c) PROVE AppendRecord(Window)
  BY Zenon, <1>3, <1>4, <1>5, <1>6, <1>7, <1>8 DEF CallStep, TestProvider
<1>9. ~WindowStep
  <2>1. \A outcome : ~TestCurrent(outcome)
    BY Zenon, <1>1, <1>3 DEF TestCurrent, TestProvider
  <2>2. ~Save
    BY Zenon, <1>1, <1>4 DEF Save
  <2>3. ~(Refresh \/ (\E p \in Providers : Select(p)))
    <3>1. Refresh \/ (\E p \in Providers : Select(p)) => calls' = calls
      BY Zenon DEF Refresh, Select
    <3> QED
      BY <1>1, <3>1, KeptOrIdle
  <2>4. \A field, value : ~Edit(field, value)
    <3>1. \A field, value : Edit(field, value) => calls' = calls
      BY Zenon DEF Edit
    <3> QED
      BY <1>1, <3>1, KeptOrIdle
  <2> QED
    BY Zenon, <2>1, <2>2, <2>3, <2>4 DEF WindowStep
<1>10. ~OpenConsole
  BY <1>1, KeptOrIdle DEF OpenConsole
<1>11. \A outcome : ~ConsoleQuery(outcome)
  BY Zenon, <1>1, <1>3 DEF ConsoleQuery
<1> QED
  BY Zenon, <1>2, <1>8, <1>9, <1>10, <1>11 DEF ProviderNext

\* What a listing shows.
LEMMA ListedFields ==
  ASSUME NEW r, NEW l, l = Listed(r)
  PROVE  /\ l.display = Given(r.display, Unset) /\ l.model = Given(r.model, Unset)
         /\ l.source = SecretSource(r) /\ l.enabled = r.enabled
         /\ l.env = (IF SecretSource(r) = Env THEN Given(r.env, Unset) ELSE Unset)
         /\ l.ref = (IF SecretSource(r) = Existing THEN Given(r.ref, Unset) ELSE Unset)
  BY Zenon DEF Listed

\* What a plain text becomes on its way through a call and the file: itself.
LEMMA SettingStays ==
  ASSUME NEW text, IsText(text), IsSetting(text)
  PROVE  Sanitized(text) = text /\ Before(Sanitized(text), ",") = text
  BY SanitizedText, SettingBefore DEF IsSetting

LEMMA FormRequestFields ==
  ASSUME NEW form, NEW request, request = FormRequest(form)
  PROVE  /\ request.provider = form.provider /\ request.display = form.display
         /\ request.model = form.model /\ request.endpoint = DefaultFor(form.provider)
         /\ request.source = form.source /\ request.env = form.env /\ request.ref = form.ref
         /\ request.enabled = form.enabled
  BY Zenon DEF FormRequest

IsListingOf(new, request) ==
  /\ new.display = Given(Sanitized(Given(request.display, <<request.provider>>)), Unset)
  /\ new.model = Given(Before(Sanitized(request.model), ","), Unset)
  /\ new.source = request.source /\ new.enabled = request.enabled
  /\ new.env = (IF request.source = Env THEN Given(Before(Sanitized(request.env), ","), Unset)
                ELSE Unset)
  /\ new.ref = (IF request.source = Existing
                THEN Given(Before(Sanitized(request.ref), ","), Unset) ELSE Unset)

LEMMA SourceIsSetting ==
  ASSUME NEW source \in Sources
  PROVE  source # NoText /\ Before(Before(source, ";"), ",") = source
<1>1. /\ IsText(source) /\ source # NoText
      /\ \A i \in DOMAIN source : source[i] \in {"direct", "env", "existing"}
  BY TextIs DEF Sources, Direct, Env, Existing, NoText
<1>2. ";" \notin ToSet(source) /\ "," \notin ToSet(source)
  BY <1>1 DEF ToSet
<1> QED
  BY <1>1, <1>2, BeforeText

\* The listing of a record that a call appends with the endpoint that no setting ends.
LEMMA ListedAppended ==
  ASSUME NEW request, IsRequest(request), request.source \in Sources, NEW n,
         request.endpoint = DefaultFor(request.provider),
         NEW new, new = Listed(ReadBack(Record(request, n)))
  PROVE  IsListingOf(new, request)
<1> DEFINE r == Record(request, n)
           stored == ReadBack(r)
<1>1. /\ DOMAIN r = RecordDomain
      /\ r.display = Sanitized(Given(request.display, <<request.provider>>))
      /\ r.model = Sanitized(request.model)
      /\ r.endpoint = Given(request.endpoint, DefaultFor(request.provider))
      /\ r.source = request.source
      /\ r.env = (IF request.source = Env THEN Sanitized(request.env) ELSE NoText)
      /\ r.ref = (IF request.source = Existing THEN Sanitized(request.ref) ELSE NoText)
  BY RecordFields
<1>2. r.enabled = request.enabled
  BY Zenon, RecordFields
<1>3. IsPlain(r.endpoint)
  <2>1. IsPlain(NoText)
    BY NoTextIs DEF IsSetting
  <2> QED
    BY <1>1, <2>1, ProviderAssumption DEF Given, DefaultFor, IsPlain
<1> HIDE DEF r
<1>4. /\ stored.display = r.display /\ stored.model = Before(r.model, ",")
      /\ stored.env = Before(r.env, ",") /\ stored.ref = Before(r.ref, ",")
      /\ stored.source = Before(Before(r.source, ";"), ",")
  BY <1>1, <1>3, ReadBackFields
<1>5. stored.enabled = r.enabled
  BY Zenon, <1>1, ReadBackFields
<1>6. new = Listed(stored)
  BY DEF r
<1> HIDE DEF stored
<1>7. /\ new.display = Given(stored.display, Unset) /\ new.model = Given(stored.model, Unset)
      /\ new.source = SecretSource(stored)
      /\ new.env = (IF SecretSource(stored) = Env THEN Given(stored.env, Unset) ELSE Unset)
      /\ new.ref = (IF SecretSource(stored) = Existing THEN Given(stored.ref, Unset) ELSE Unset)
  BY Zenon, <1>6, ListedFields
<1>8. new.enabled = stored.enabled
  BY Zenon, <1>6, ListedFields
<1>9. SecretSource(stored) = request.source
  <2>1. stored.source = request.source /\ stored.source # NoText
    BY <1>1, <1>4, SourceIsSetting
  <2> QED
    BY Zenon, <2>1 DEF SecretSource
<1>10. new.enabled = request.enabled
  BY Zenon, <1>2, <1>5, <1>8
<1>11. /\ new.display = Given(Sanitized(Given(request.display, <<request.provider>>)), Unset)
       /\ new.model = Given(Before(Sanitized(request.model), ","), Unset)
       /\ new.source = request.source
  BY <1>1, <1>4, <1>7, <1>9
<1>12. /\ new.env = (IF request.source = Env THEN Given(Before(Sanitized(request.env), ","), Unset)
                     ELSE Unset)
       /\ new.ref = (IF request.source = Existing
                     THEN Given(Before(Sanitized(request.ref), ","), Unset) ELSE Unset)
  BY <1>1, <1>4, <1>7, <1>9
<1> QED
  BY Zenon, <1>10, <1>11, <1>12 DEF IsListingOf

LEMMA SaveKeeps ==
  ASSUME IInv, StoredInv, AppendRecord(Window), NEW p \in Providers,
         calls[Window].request.provider = p, file[p] # NoRecord, p \notin overtaken,
         "provider" \notin window.edited,
         NEW field \in {"display", "model", "source", "enabled", "env", "ref"} \ window.edited,
         ~(field \in {"env", "ref"} /\ "source" \in window.edited),
         ~(field = "source" /\ Listed(file[p]).source \notin Sources)
  PROVE  Listed(file'[p])[field] = Listed(file[p])[field]
<1> DEFINE request == calls[Window].request
           form == window.form
           old == Listed(file[p])
           new == Listed(ReadBack(Record(request, calls[Window].number)))
<1>1. /\ calls[Window].stage = "record"
      /\ file' = [file EXCEPT ![p] = ReadBack(Record(request, calls[Window].number))]
  BY Zenon DEF AppendRecord
<1>2. Window \in Callers /\ calls[Window] # Idle
  BY <1>1, IdleStage, ProviderAssumption
<1>3. request = FormRequest(form) /\ IsRequest(request)
  BY <1>2 DEF StoredInv, WindowCallFits, CallsOK, IsCall
<1>4. /\ request.provider = form.provider /\ request.display = form.display
      /\ request.model = form.model /\ request.endpoint = DefaultFor(form.provider)
      /\ request.source = form.source /\ request.env = form.env /\ request.ref = form.ref
      /\ form.source \in Sources
  BY <1>3, FormRequestFields DEF StoredInv, WindowShape
<1>5. request.enabled = form.enabled
  BY Zenon, <1>3, FormRequestFields
<1>6. FollowsListed(form, old, window.edited)
  <2>1. form.provider = p
    BY <1>4
  <2>2. window.shown[p] # NoRecord /\ FollowsListed(form, window.shown[p], window.edited)
    BY <2>1 DEF StoredInv, FormFits
  <2>3. window.shown[p] = old
    BY <2>2 DEF StoredInv, ListFits
  <2> QED
    BY <2>2, <2>3
<1>7. IsStored(p, file[p])
  BY DEF StoredInv, TablesOK, IsTable
<1>8. file'[p] = ReadBack(Record(request, calls[Window].number))
  BY <1>1 DEF StoredInv, TablesOK, IsTable
<1>9. /\ IsText(request.display) /\ IsText(request.model) /\ IsText(request.env) /\ IsText(request.ref)
      /\ request.model # NoText /\ (request.source = Env => request.env # NoText)
      /\ request.source = Existing => request.ref # NoText
  BY <1>3 DEF IsRequest, TextFields
<1>10. /\ old.display = Given(file[p].display, Unset) /\ old.model = Given(file[p].model, Unset)
       /\ old.source = SecretSource(file[p])
       /\ old.env = (IF old.source = Env THEN Given(file[p].env, Unset) ELSE Unset)
       /\ old.ref = (IF old.source = Existing THEN Given(file[p].ref, Unset) ELSE Unset)
  BY Zenon, ListedFields
<1>11. request.endpoint = DefaultFor(request.provider)
  BY <1>4
<1>12. new = Listed(ReadBack(Record(request, calls[Window].number)))
  OBVIOUS
<1>13. Listed(file'[p]) = new
  BY <1>8
<1> HIDE DEF request, new
<1>14. IsListingOf(new, request)
  BY <1>3, <1>4, <1>11, <1>12, ListedAppended
<1>15. /\ new.display = Given(Sanitized(Given(request.display, <<request.provider>>)), Unset)
       /\ new.model = Given(Before(Sanitized(request.model), ","), Unset)
       /\ new.source = request.source
       /\ new.env = (IF request.source = Env THEN Given(Before(Sanitized(request.env), ","), Unset)
                     ELSE Unset)
       /\ new.ref = (IF request.source = Existing
                     THEN Given(Before(Sanitized(request.ref), ","), Unset) ELSE Unset)
  BY Zenon, <1>14 DEF IsListingOf
<1>16. new.enabled = request.enabled
  BY Zenon, <1>14 DEF IsListingOf
<1>17. /\ IsPlain(file[p].display) /\ file[p].display # NoText /\ IsSetting(file[p].model)
       /\ IsSetting(file[p].env) /\ IsSetting(file[p].ref) /\ IsSetting(Unset)
  <2>1. IsSetting(Unset)
    <3>1. \A i \in DOMAIN Unset : Unset[i] = "unset"
      BY DEF Unset
    <3> QED
      BY <3>1 DEF IsSetting, IsPlain, ToSet
  <2> QED
    BY <1>7, <2>1 DEF IsStored
<1> HIDE DEF form, old
<1>18. CASE field = "display"
  <2>1. request.display = file[p].display /\ old.display = file[p].display
    BY <1>4, <1>6, <1>10, <1>17, <1>18 DEF FollowsListed, Given
  <2>2. Sanitized(request.display) = request.display
    BY <1>9, <1>17, <2>1, SanitizedText
  <2> QED
    BY <1>15, <1>13, <1>17, <1>18, <2>1, <2>2 DEF Given, old
<1>19. CASE field = "model"
  <2>1. request.model = old.model /\ IsSetting(request.model)
    BY <1>4, <1>6, <1>10, <1>17, <1>19 DEF FollowsListed, Given
  <2>2. Before(Sanitized(request.model), ",") = request.model
    BY <1>9, <2>1, SettingStays
  <2> QED
    BY <1>9, <1>15, <1>13, <1>19, <2>1, <2>2 DEF Given, old
<1>20. CASE field = "source"
  BY <1>4, <1>6, <1>15, <1>13, <1>20 DEF FollowsListed, Chosen, old
<1>21. CASE field = "enabled"
  <2>1. new.enabled = old.enabled
    BY Zenon, <1>5, <1>6, <1>16, <1>21 DEF FollowsListed
  <2> QED
    BY Zenon, <1>13, <1>21, <2>1 DEF old
<1>22. CASE field = "env"
  <2>1. request.source = Chosen(old.source)
    BY <1>4, <1>6, <1>22 DEF FollowsListed
  <2>4. /\ request.source = Env <=> old.source = Env
        /\ request.source = Existing <=> old.source = Existing
    BY <2>1 DEF Chosen, Sources, Direct, Env, Existing
  <2>2. CASE request.source # Env
    BY <1>10, <1>15, <1>13, <1>22, <2>4, <2>2 DEF old
  <2>3. CASE request.source = Env
    <3>1. request.env = old.env /\ IsSetting(request.env)
      BY <1>4, <1>6, <1>9, <1>10, <1>17, <1>22, <2>4, <2>3 DEF FollowsListed, Given
    <3>2. Before(Sanitized(request.env), ",") = request.env
      BY <1>9, <3>1, SettingStays
    <3> QED
      BY <1>9, <1>15, <1>13, <1>22, <2>3, <3>1, <3>2 DEF Given, old
  <2> QED
    BY <2>2, <2>3
<1>23. CASE field = "ref"
  <2>1. request.source = Chosen(old.source)
    BY <1>4, <1>6, <1>23 DEF FollowsListed
  <2>4. /\ request.source = Env <=> old.source = Env
        /\ request.source = Existing <=> old.source = Existing
    BY <2>1 DEF Chosen, Sources, Direct, Env, Existing
  <2>2. CASE request.source # Existing
    BY <1>10, <1>15, <1>13, <1>23, <2>4, <2>2 DEF old
  <2>3. CASE request.source = Existing
    <3>1. request.ref = old.ref /\ IsSetting(request.ref)
      BY <1>4, <1>6, <1>9, <1>10, <1>17, <1>23, <2>4, <2>3 DEF FollowsListed, Given
    <3>2. Before(Sanitized(request.ref), ",") = request.ref
      BY <1>9, <3>1, SettingStays
    <3> QED
      BY <1>9, <1>15, <1>13, <1>23, <2>3, <3>1, <3>2 DEF Given, old
  <2> QED
    BY <2>2, <2>3
<1> QED
  BY <1>18, <1>19, <1>20, <1>21, <1>22, <1>23

\* A save of the setup window changes what was edited and nothing else that is
\* listed, when no other record of the provider was appended since the list was
\* read; but a source the window does not know, which becomes a direct one
\* (SaveCurrentProvider, PopulateFromSelection).
THEOREM SavesKeepTheRest == ProviderSpec => SaveKeepsTheRest
<1>1. IInv /\ StoredInv /\ [ProviderNext]_vars =>
        [\A p \in Providers :
           /\ calls[Window].stage = "record" /\ calls'[Window].stage = "manifest"
           /\ calls[Window].request.provider = p
           /\ file[p] # NoRecord /\ p \notin overtaken /\ "provider" \notin window.edited
           => \A field \in {"display", "model", "source", "enabled", "env", "ref"} \ window.edited :
                \/ Listed(file'[p])[field] = Listed(file[p])[field]
                \/ field = "source" /\ Listed(file[p]).source \notin Sources
                \/ field \in {"env", "ref"} /\ "source" \in window.edited]_vars
  BY Zenon, AppendedIsAppend, SaveKeeps DEF Appended
<1> QED
  BY <1>1, ProviderInvariant, StoredInvariant, PTL DEF ProviderSpec, SaveKeepsTheRest
=============================================================================
