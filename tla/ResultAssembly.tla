--------------------------- MODULE ResultAssembly ---------------------------
(***************************************************************************)
(* What a transaction makes of its logs, telemetry and update errors       *)
(* (kernel_v6.rs): the kernel's outputs in the order produced, with those   *)
(* of a failed update undone in part; the result they are appended to      *)
(* within its bounds; and the loop that sheds them until the result decodes *)
(* under the decoder's accounting.                                         *)
(*                                                                         *)
(* A size is in units of the encoding.  What the decoder charges for an    *)
(* entry or for the result's other content may be more than its size (every *)
(* integer at full width).                                                 *)
(***************************************************************************)
EXTENDS ListPlaces

CONSTANTS
    MaxDiagnostics,     \* MAX_RESULT_DIAGNOSTICS
    MaxEvidence,        \* MAX_RESULT_EVIDENCE
    MaxTelemetry,       \* MAX_RESULT_TELEMETRY
    MaxDiagnosticSize,  \* MAX_RESULT_DIAGNOSTIC_BYTES
    MaxPayloadSize,     \* MAX_EVIDENCE_PAYLOAD_BYTES
    MaxTelemetrySize,   \* MAX_TELEMETRY_BYTES, of all telemetry together
    MaxResultSize,      \* MAX_DECISION_RESULT_V6_BYTES
    Budget,             \* RESULT_ENCODED_BUDGET_BYTES
    Overhead,           \* RESULT_OVERHEAD_BYTES
    ShedShare,          \* one in ShedShare is shed at a time
    Emissions,          \* logs and telemetry the kernel produces: see Output
    Essentials,         \* [size, charge] of checkpoint, commands and acknowledgements
    MaxUpdateEvidence,  \* bound on the evidence entries of order updates
    MaxNotes,           \* bound on the notes of the comparison
    MaxOutputs          \* bound on the outputs before an update's last

ASSUME AssemblyAssumption ==
    /\ {MaxDiagnostics, MaxEvidence, MaxTelemetry, MaxDiagnosticSize, MaxPayloadSize,
        MaxTelemetrySize, MaxResultSize, Budget, Overhead, MaxUpdateEvidence, MaxNotes,
        MaxOutputs} \subseteq Nat
    /\ ShedShare \in Nat \ {0}
    /\ Emissions \subseteq
          [kind : {"log", "telemetry"}, size : Nat \ {0}, charge : Nat, valid : BOOLEAN]
    /\ \A e \in Emissions : e.charge >= e.size
    /\ Essentials \subseteq [size : Nat, charge : Nat]
    /\ MaxNotes + 2 =< MaxDiagnostics
    /\ MaxUpdateEvidence =< MaxEvidence

VARIABLES
    phase,      \* "updates", "event", "fit", "returned" or "failed"
    outputs,    \* HostOutput, in the order produced
    mark,       \* outputs before the update that is being delivered; -1 outside of one
    essential,  \* what the result carries besides: never shed
    result,     \* diagnostics, evidence and telemetry, each entry with its output's number
    lost        \* outputs the result could not keep

vars == <<phase, outputs, mark, essential, result, lost>>

\* The transaction's own diagnostics and evidence have no output; that of an overflow says how
\* much was lost.
Entry(code, size, charge, output) ==
    [code |-> code, size |-> size, charge |-> charge, output |-> output, lost |-> 0]

Fixed(code, n) == [i \in 1..n |-> Entry(code, 1, 1, 0)]

Overflow(count) ==
    [code |-> "kernel_telemetry_overflow", size |-> 1, charge |-> 1, output |-> 0,
     lost |-> count]

-----------------------------------------------------------------------------
(* Outputs *)

Output(kind, size, charge, valid) ==
    [kind |-> kind, size |-> size, charge |-> charge, valid |-> valid]

Running == phase \in {"updates", "event"} /\ UNCHANGED <<essential, result, lost>>

\* emit(Log), and push_telemetry with any entry, valid or not, in the kernel's handler of an
\* update or of the trigger.
Emit ==
    /\ Running /\ UNCHANGED <<phase, mark>>
    /\ phase = "event" \/ mark # -1
    /\ Len(outputs) < MaxOutputs
    /\ \E output \in Emissions : outputs' = Append(outputs, output)

BeginUpdate ==
    /\ Running /\ UNCHANGED <<phase, outputs>>
    /\ phase = "updates" /\ mark = -1
    /\ Len(outputs) < MaxOutputs
    /\ mark' = Len(outputs)

UpdateError == Output("update_error", 1, 1, TRUE)

UpdateWarning == Output("update_warning", 1, 1, TRUE)

\* An update held behind its target's, or one the kernel could not be saved before.
SkipUpdate ==
    /\ Running /\ UNCHANGED <<phase, mark>>
    /\ phase = "updates" /\ mark = -1
    /\ Len(outputs) < MaxOutputs
    /\ outputs' = Append(outputs, UpdateError)

\* A handled update; one delivered out of order is warned of.
EndUpdate ==
    /\ Running /\ UNCHANGED phase
    /\ mark # -1
    /\ mark' = -1
    /\ outputs' \in {outputs, Append(outputs, UpdateWarning)}

\* KernelHost::restore: a failed update's logs and errors stay, nothing else of it does.
Undone(produced, from) ==
    ElementsAt(produced, {i \in DOMAIN produced :
                             i =< from \/ produced[i].kind \in {"log", "update_error"}})

\* A failed update is undone and described.
FailUpdate ==
    /\ Running /\ UNCHANGED phase
    /\ mark # -1
    /\ mark' = -1
    /\ outputs' = Append(Undone(outputs, mark), UpdateError)

\* The kernel cannot go back: all updates are undone, and none is delivered any more.
FailAll ==
    /\ Running
    /\ mark # -1
    /\ mark' = -1
    /\ phase' = "event"
    /\ outputs' = Append(Undone(Undone(outputs, mark), 0), UpdateError)

\* The updates are done; the trigger is next.
BeginEvent ==
    /\ Running /\ UNCHANGED <<outputs, mark>>
    /\ phase = "updates" /\ mark = -1
    /\ phase' = "event"

-----------------------------------------------------------------------------
(* append_outputs *)

\* A field's sum over all entries.
Total(entries, field) ==
    LET total[n \in 0..Len(entries)] ==
            IF n = 0 THEN 0 ELSE total[n - 1] + entries[n][field]
    IN  total[Len(entries)]

EncodedSize(entries) == Total(entries, "size")

Charged(entries) == Total(entries, "charge")

\* Where an output goes: a log is a diagnostic, or else evidence, or else lost; an error or a
\* warning is cut to fit a diagnostic, or lost; telemetry is telemetry or lost.  The last two
\* diagnostics are for the kernel's error and the overflow.
Destination(acc, output) ==
    LET fits == output.size =< acc.room
        diagnosed == /\ output.kind = "log" => output.size =< MaxDiagnosticSize
                     /\ Len(acc.diagnostics) < MaxDiagnostics - 2
                     /\ fits
        evident == /\ output.kind = "log"
                   /\ output.size =< MaxPayloadSize
                   /\ Len(acc.evidence) < MaxEvidence
                   /\ fits
        measured == /\ output.valid
                    /\ Len(acc.telemetry) < MaxTelemetry
                    /\ acc.telemetry_size + output.size =< MaxTelemetrySize
                    /\ fits
    IN  IF output.kind = "telemetry" THEN IF measured THEN "telemetry" ELSE "lost"
        ELSE IF diagnosed THEN "diagnostics"
        ELSE IF evident THEN "evidence" ELSE "lost"

CodeOf(output) ==
    IF output.kind = "log" THEN "kernel_log"
    ELSE IF output.kind = "telemetry" THEN "telemetry" ELSE "update"

\* The n-th output is taken to its destination.
Taken(acc, output, n) ==
    LET to == Destination(acc, output)
        entry == Entry(CodeOf(output), output.size, output.charge, n)
        With(list, here) == IF here THEN Append(list, entry) ELSE list
        taken(size, here) == IF here THEN size ELSE 0
    IN  [diagnostics |-> With(acc.diagnostics, to = "diagnostics"),
         evidence |-> With(acc.evidence, to = "evidence"),
         telemetry |-> With(acc.telemetry, to = "telemetry"),
         room |-> acc.room - taken(output.size, to # "lost"),
         telemetry_size |-> acc.telemetry_size + taken(output.size, to = "telemetry"),
         lost |-> acc.lost + taken(1, to = "lost")]

\* The outputs appended to a result with the notes and the order updates' evidence.
Appended(notes, evidence, size) ==
    LET used == size + EncodedSize(notes) + EncodedSize(evidence) + Overhead
        start == [diagnostics |-> notes, evidence |-> evidence, telemetry |-> << >>,
                  room |-> IF Budget > used THEN Budget - used ELSE 0,
                  telemetry_size |-> 0, lost |-> 0]
        after[n \in 0..Len(outputs)] ==
            IF n = 0 THEN start ELSE Taken(after[n - 1], outputs[n], n)
    IN  after[Len(outputs)]

\* DecisionResultV6::validate, of its lists.
ListsFit(r) ==
    /\ Len(r.diagnostics) =< MaxDiagnostics
    /\ Len(r.evidence) =< MaxEvidence
    /\ Len(r.telemetry) =< MaxTelemetry

\* The run's outcome: completed with the comparison's notes, or rejected for the kernel's
\* error, which is a diagnostic whatever room is left.  Either way it has to validate.
Assemble ==
    /\ phase = "event"
    /\ UNCHANGED <<outputs, mark>>
    /\ \E error \in BOOLEAN, notes \in 0..MaxNotes, updates \in 0..MaxUpdateEvidence :
          /\ error => notes = 0
          /\ essential' \in
                {[size |-> e.size, charge |-> e.charge, notes |-> notes, updates |-> updates,
                  error |-> error] : e \in Essentials}
          /\ LET taken == Appended(Fixed("note", notes), Fixed("order_updates", updates),
                                   essential'.size)
             IN  /\ result' =
                       [diagnostics |-> taken.diagnostics
                                            \o IF error THEN <<Entry("kernel_error", 1, 1, 0)>> ELSE << >>,
                        evidence |-> taken.evidence, telemetry |-> taken.telemetry]
                 /\ lost' = taken.lost
                 /\ phase' = IF ListsFit(result') THEN "fit" ELSE "failed"

-----------------------------------------------------------------------------
(* fit_result: one pass of its loop at a time *)

\* Mutant: the overflow told again leaves what an earlier pass told.
OverflowAgain(r, count) ==
    [r EXCEPT !.diagnostics = @ \o IF count > 0 THEN <<Overflow(count)>> ELSE << >>]

\* The overflow is told anew in each pass, last.
WithOverflow(r, count) ==
    LET Other(d) == d.code # "kernel_telemetry_overflow"
    IN  [r EXCEPT !.diagnostics =
            Selected(@, Other) \o IF count > 0 THEN <<Overflow(count)>> ELSE << >>]

\* encode_decision_result_v6: valid, and within the bound as encoded and as the decoder
\* charges it.
Encodes(r) ==
    LET all == r.diagnostics \o r.evidence \o r.telemetry
    IN  /\ ListsFit(r)
        /\ essential.size + EncodedSize(all) =< MaxResultSize
        /\ essential.charge + Charged(all) =< MaxResultSize

\* Mutant: a share that rounds down.
ShareDown(n) == n \div ShedShare

Share(n) == (n + ShedShare - 1) \div ShedShare

\* Mutant: whatever is evidence is shed like a log.
IsLogOrEvidence(entry) == entry.code \in {"kernel_log", "order_updates"}

IsLog(entry) == entry.code = "kernel_log"

Logs(entries) == {i \in DOMAIN entries : IsLog(entries[i])}

\* The list without its last n logs, or without any if it has no more.
WithoutLogs(entries, n) ==
    ElementsAt(entries, {i \in DOMAIN entries :
        ~IsLog(entries[i]) \/ Cardinality({j \in Logs(entries) : j > i}) >= n})

\* Telemetry is shed from the end, and then logs, from the end of the evidence first.
ShedTelemetry(r) ==
    [r EXCEPT !.telemetry = SubSeq(@, 1, Len(@) - Share(Len(@)))]

ShedLogs(r) ==
    LET evident == Cardinality(Logs(r.evidence))
        all == evident + Cardinality(Logs(r.diagnostics))
        share == Share(all)
    IN  [r EXCEPT !.evidence = WithoutLogs(@, share),
                  !.diagnostics = IF share > evident THEN WithoutLogs(@, share - evident) ELSE @]

Held(r) == Len(r.diagnostics) + Len(r.evidence) + Len(r.telemetry)

Sheddable(r) ==
    Len(r.telemetry) + Cardinality(Logs(r.evidence)) + Cardinality(Logs(r.diagnostics))

\* A pass: return, shed, or give up when there is nothing left to shed.
Fit ==
    LET told == WithOverflow(result, lost)
        shed == IF told.telemetry # << >> THEN ShedTelemetry(told) ELSE ShedLogs(told)
        nothing == told.telemetry = << >> /\ Logs(told.evidence) = {}
                                          /\ Logs(told.diagnostics) = {}
    IN  /\ phase = "fit"
        /\ UNCHANGED <<outputs, mark, essential>>
        /\ IF Encodes(told)
           THEN phase' = "returned" /\ result' = told /\ UNCHANGED lost
           ELSE IF nothing THEN phase' = "failed" /\ result' = told /\ UNCHANGED lost
           ELSE /\ result' = shed
                /\ lost' = lost + Held(told) - Held(shed)
                /\ UNCHANGED phase

-----------------------------------------------------------------------------
Init ==
    /\ phase = "updates"
    /\ outputs = << >>
    /\ mark = -1
    /\ essential = [size |-> 0, charge |-> 0, notes |-> 0, updates |-> 0, error |-> FALSE]
    /\ result = [diagnostics |-> << >>, evidence |-> << >>, telemetry |-> << >>]
    /\ lost = 0

Next ==
    \/ Emit
    \/ BeginUpdate \/ SkipUpdate \/ EndUpdate \/ FailUpdate \/ FailAll \/ BeginEvent
    \/ Assemble
    \/ Fit

Spec == Init /\ [][Next]_vars

\* The loop runs until it returns.
FairSpec == Spec /\ WF_vars(Fit)

-----------------------------------------------------------------------------
(* Properties *)

Codes == {"note", "order_updates", "kernel_log", "update", "telemetry", "kernel_error",
          "kernel_telemetry_overflow"}

Entries == [code : Codes, size : Nat, charge : Nat, output : Nat, lost : Nat]

Outputs == Emissions \cup {UpdateError, UpdateWarning}

\* The outputs, the mark of the update being delivered and the result's lists are of their
\* types.
TypeOK ==
    /\ phase \in {"updates", "event", "fit", "returned", "failed"}
    /\ outputs \in Seq(Outputs)
    /\ mark \in -1..Len(outputs)
    /\ essential \in [size : Nat, charge : Nat, notes : Nat, updates : Nat, error : BOOLEAN]
    /\ result \in [diagnostics : Seq(Entries), evidence : Seq(Entries),
                   telemetry : Seq(Entries)]
    /\ lost \in Nat

Coded(entries, code) == {i \in DOMAIN entries : entries[i].code = code}

\* The places of the entries that are outputs, and the outputs they are.
Numbered(entries) == {i \in DOMAIN entries : entries[i].output # 0}

Numbers(entries) == {entries[i].output : i \in Numbered(entries)}

InOrder(entries) ==
    \A i, j \in Numbered(entries) : i < j => entries[i].output < entries[j].output

\* Of the first n outputs, those not counted as lost are in the lists once, in order.
Accounted(r, count, n) ==
    /\ Numbers(r.diagnostics) \cup Numbers(r.evidence) \cup Numbers(r.telemetry) \subseteq 1..n
    /\ InOrder(r.diagnostics) /\ InOrder(r.evidence) /\ InOrder(r.telemetry)
    /\ Numbers(r.diagnostics) \cap Numbers(r.evidence) = {}
    /\ Numbers(r.diagnostics) \cap Numbers(r.telemetry) = {}
    /\ Numbers(r.evidence) \cap Numbers(r.telemetry) = {}
    /\ Cardinality(Numbered(r.diagnostics)) + Cardinality(Numbered(r.evidence))
          + Cardinality(Numbered(r.telemetry)) + count = n

\* The overflow is told once, last and as it is, if anything was lost.
OverflowTold(entries, count) ==
    /\ Coded(entries, "kernel_telemetry_overflow") = IF count = 0 THEN {} ELSE {Len(entries)}
    /\ count # 0 => entries[Len(entries)].lost = count

\* Every output of the decision is in the result it returns, once and in the order produced,
\* or counted in its one overflow diagnostic.
\* (append_outputs, Overflow, fit_result.)
NothingIsLostUnseen ==
    phase = "returned" =>
        /\ Accounted(result, lost, Len(outputs))
        /\ OverflowTold(result.diagnostics, lost)

\* What a decision is for is never given up for what it logged: a result has the notes, the
\* order updates' evidence and the kernel's error it was assembled with, its lists are within
\* the contract's bounds, and none is returned only if those alone, with the update errors
\* and the overflow, do not fit.
\* ("Commands, the checkpoint and the order updates are never shed", kernel_v6.rs:2001-2004.)
EssentialsAreKept ==
    /\ phase \in {"fit", "returned"} =>
          /\ Cardinality(Coded(result.diagnostics, "note")) = essential.notes
          /\ Cardinality(Coded(result.evidence, "order_updates")) = essential.updates
          /\ (Coded(result.diagnostics, "kernel_error") # {}) <=> essential.error
    /\ phase = "returned" => ListsFit(result)
    /\ phase = "failed" =>
          LET told == Cardinality(Coded(result.diagnostics, "update"))
                          + IF lost > 0 THEN 1 ELSE 0
          IN  essential.notes + essential.updates + told + (IF essential.error THEN 1 ELSE 0)
                  + (IF essential.charge > essential.size THEN essential.charge
                     ELSE essential.size) > MaxResultSize

\* What can still be shed becomes less with every pass that does not end the loop: a share is at
\* least one, and some entry always is what the pass sheds.
\* (fit_result: "at least one entry", kernel_v6.rs:2030.)
EachPassSheds ==
    [][phase = "fit" /\ phase' = "fit" => Sheddable(result') < Sheddable(result)]_vars

\* The loop ends, however much the decoder charges.
AResultIsReached == (phase = "fit") ~> (phase \in {"returned", "failed"})
=============================================================================
