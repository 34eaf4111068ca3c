------------------------------- MODULE ChunkedVm -------------------------------
(***************************************************************************)
(* The VM the firmware runs (squidvm-core, ChunkedVm): the code stays in   *)
(* the app's file, one chunk of it at a time is in a buffer, and the       *)
(* machine stops for the host to read the chunk of the frame it is in.     *)
(* It implements AppMachine, whose code is always at hand.  The chunk      *)
(* cache, which holds no code but only counts uses, is left out.           *)
(***************************************************************************)
EXTENDS AppMachine

VARIABLES
    code,  \* the buffer: the range it is marked with and the chunk whose bytes it holds
    asked  \* has the host been asked for a chunk it has not brought yet? (frames' pending)

vmVars == <<m, phase, saved, code, asked>>
-----------------------------------------------------------------------------
(* The buffer. *)
NoCode == [chunk |-> <<"none", 0>>, holds |-> <<"none", 0>>]
\* Wrong: any code in the buffer is taken for the frame's.
AnyCode == code # NoCode
Resident == code # NoCode /\ code.chunk = Top(m).chunk
Needed == phase = "run" /\ ~asked /\ ~AtEnd(m) /\ ~Resident
Filled == [chunk |-> Top(m).chunk, holds |-> Top(m).chunk]

\* The host reads the chunk at once, or takes the request and comes back with the bytes.
ReadNow == Needed /\ code' = Filled /\ UNCHANGED <<m, phase, saved, asked>>
ReadRequest == Needed /\ asked' = TRUE /\ UNCHANGED <<m, phase, saved, code>>
\* Wrong: the frame starts over with the chunk that was read.
ReadRestarts ==
    asked /\ code' = Filled /\ asked' = FALSE /\ m' = GoTo(m, 1) /\ UNCHANGED <<phase, saved>>
ReadDone == asked /\ code' = Filled /\ asked' = FALSE /\ UNCHANGED <<m, phase, saved>>
ReadFails ==
    /\ (Needed /\ m' = Fail(m)) \/ (asked /\ m' = m)
    /\ phase' = "idle" /\ asked' = FALSE
    /\ UNCHANGED <<saved, code>>

VmStart(event, payload) == Start(event, payload) /\ UNCHANGED <<code, asked>>
VmEndFrame == ~asked /\ EndFrame /\ UNCHANGED <<code, asked>>

\* The instruction comes from the buffer, whatever that holds.
VmInstruction ==
    /\ phase = "run" /\ ~asked /\ ~AtEnd(m) /\ Resident /\ ~OutOfBudget
    /\ Step(Image.code[code.holds][Top(m).ip])
    /\ UNCHANGED <<code, asked>>

VmExceed == ~asked /\ Exceed /\ Resident /\ UNCHANGED <<code, asked>>
VmHostDone == HostDone /\ UNCHANGED <<code, asked>>
VmRelaunch == Relaunch /\ code' = NoCode /\ asked' = FALSE

Init == AppInit /\ code = NoCode /\ asked = FALSE
VmWork == ReadNow \/ ReadRequest \/ VmEndFrame \/ VmInstruction \/ VmExceed
Answer == ReadDone \/ ReadFails \/ VmHostDone
Next ==
    \/ \E event \in Events, payload \in Payloads : VmStart(event, payload)
    \/ VmWork \/ Answer \/ VmRelaunch

\* One thread runs the machine and the host answers what it asked for.
Fairness == WF_vmVars(VmWork) /\ WF_vmVars(Answer)
Spec == Init /\ [][Next]_vmVars /\ Fairness
-----------------------------------------------------------------------------
(***************************************************************************)
(* Properties                                                              *)
(***************************************************************************)
\* The fields of the machine stay within the arrays of the code (vm.rs, struct ChunkedVm).
TypeOK ==
    /\ phase \in {"idle", "run", "load", "save", "reset"}
    /\ asked \in BOOLEAN /\ (asked => phase = "run")
    /\ Len(m.stack) <= MaxStack /\ m.count \in 0 .. MaxInstr + 1
    /\ Depth(m) <= MaxDepth + 1
    /\ \A i \in 1 .. Depth(m) : LET f == m.frames[i] IN
          f.depth = i - 1 /\ f.ip \in 1 .. Len(Image.code[f.chunk]) + 1
    /\ m.nextRec \in 0 .. MaxRecs - 1 /\ m.nextList \in 0 .. MaxLists - 1
    /\ phase # "idle" => m.frames # <<>> /\ ~m.failed

\* A slot of the app state only ever holds a value of the type it was declared with, through
\* assignments, resets and records of other versions of the app that are read half way
\* (vm.rs OP_SET_STATE, state.rs apply_state_record).
StateTyped == \A i \in DOMAIN m.state : Accepts(Image.slots[i], m.state[i])

\* Whatever a running handler can reach, the arena still has: the cleanup before an event keeps
\* the texts of the state and nothing the event can use is left dangling (strings.rs
\* retain_state_values, vm.rs dispatch_resumable_with_payload).
Reachable == {m.state[i] : i \in DOMAIN m.state}
             \cup UNION {{m.frames[d].locals[i] : i \in 1 .. MaxLocals} : d \in 1 .. Depth(m)}
ReachableRecords == {m.recs[v[2]] : v \in {w \in Reachable : Type(w) = "record"}}
TextsAlive ==
    phase = "run" =>
        \A v \in Reachable \cup UNION {{r[f] : f \in DOMAIN r} : r \in ReachableRecords} :
            Type(v) = "dynamic" => v[2] \in m.texts

\* A load that succeeds leaves in the slots exactly what the record says, whether this app
\* wrote it or another version of it did (state.rs encode_state_record, apply_state_record).
LoadsWhatWasSaved ==
    [][phase = "load" /\ phase' = "run" =>
        \A i \in DOMAIN m.state :
            LET mine == {e \in {saved.entries[k] : k \in DOMAIN saved.entries} :
                             e.name = Image.slots[i].name}
            IN  IF mine = {} THEN m'.state[i] = m.state[i]
                ELSE SavedRecord(m'.state).entries[i] \in mine]_vmVars

\* The instruction that runs next is the one the file has there: a buffer left over from another
\* frame, an abandoned event or a failed read is never taken for this frame's code
\* (vm.rs load_chunk_resumable, resume_storage).
FetchesFile ==
    phase = "run" /\ ~AtEnd(m) /\ Resident => code.holds = Top(m).chunk

\* Every event ends, a handler that never returns included (vm.rs MAX_INSTRUCTIONS_PER_EVENT).
DispatchEnds == (phase # "idle") ~> (phase = "idle")

\* Reading the code chunk by chunk changes nothing an app can see: with the buffer and the
\* requests for it hidden, this is a machine whose code is always at hand (vm.rs
\* load_chunk_resumable, resume_storage).
ImplementsAppMachine == AppSpec
=============================================================================
