---------------------------- MODULE HostCallback ----------------------------
(***************************************************************************)
(* XlaPythonGpuCallback of src/xla/python/py_client_gpu.cc: the custom     *)
(* call that runs a Python callback on the host.  It copies the device     *)
(* inputs into new host buffers, waits for the stream, calls Python on     *)
(* arrays over those buffers (their capsules free them), and copies each   *)
(* result back to its device buffer: directly from the array when its      *)
(* strides are the expected ones, otherwise from a temporary buffer the    *)
(* transpose plan fills.  It then waits again and frees the temporaries.   *)
(*                                                                         *)
(* stream->memcpy is asynchronous: it appends a copy to the in-order       *)
(* queue, and the data moves when the device completes it (Complete).      *)
(* Memory is a map from locations to values: <<"in", i>> is input i,       *)
(* <<"res", i>> result i in the expected layout, <<"raw", i>> result i in  *)
(* the array's own strides.  Python's results are numpy arrays the result  *)
(* tuple holds; the model takes it to hold the last reference (a callback  *)
(* returning fresh arrays), so the arrays are freed when the tuple is      *)
(* destroyed: when the call returns, or when a throw unwinds it.           *)
(***************************************************************************)
EXTENDS Naturals, Sequences, FiniteSets

CONSTANTS
    Arity,          \* callback->num_args()
    NumResults      \* callback->results().size()

Kind == {"token", "array"}
Junk == <<"junk", 0>>  \* the contents of a buffer nothing has written yet

DevIn(i)  == <<"dev_in", i>>     \* buffers[i]
HostIn(i) == <<"host_in", i>>    \* host_input_buffers[i]
Arr(i)    == <<"arr", i>>        \* array.data() of result i
Temp(i)   == <<"temp", i>>       \* the temporary of result i
DevOut(i) == <<"dev_out", i>>    \* buffers[arity + i]

Loc == ({"dev_in", "host_in"} \X (1..Arity))
       \cup ({"arr", "temp", "dev_out"} \X (1..NumResults))

VARIABLES
    args,       \* callback->args()[i].type
    results,    \* callback->results()[i].type
    strided,    \* result i's strides equal expected_strides
    pc,         \* "parse", "copyin", "copyout", "done", "failed", "thrown"
    i,          \* the loop index
    mem,        \* the contents of every location
    stream,     \* copies queued on the stream: <<[dst, src], ...>>
    alloc,      \* host buffers the call made with new char[]
    freed,      \* host buffers deleted since
    capsule,    \* host buffers a py::capsule owns
    seen,       \* what Python's input arrays held when called (<<>> before)
    touched     \* freed locations a completed copy read or wrote

vars == <<args, results, strided, pc, i, mem, stream, alloc, freed, capsule, seen, touched>>

\* The numpy arrays of results 1..n that the result tuple holds.
ResultArrays(n) == {Arr(k) : k \in {k \in 1..n : results[k] = "array"}}

\* stream->memcpy(dst, src, n).
Memcpy(dst, src) == stream' = Append(stream, [dst |-> dst, src |-> src])

-----------------------------------------------------------------------------
(* The callback's steps                                                     *)

\* SimpleAtoi of the opaque descriptor; on failure throw before anything is
\* allocated.
Parse ==
    /\ pc = "parse"
    /\ \/ pc' = "thrown" /\ UNCHANGED i
       \/ pc' = "copyin" /\ i' = 1
    /\ UNCHANGED <<args, results, strided, mem, stream, alloc, freed, capsule, seen, touched>>

\* One iteration of the copy-in loop: a token gets nullptr, an array a new
\* host buffer and a copy from its device buffer.
CopyIn ==
    /\ pc = "copyin" /\ i =< Arity
    /\ IF args[i] = "token"
       THEN UNCHANGED <<alloc, stream, mem>>
       ELSE /\ alloc' = alloc \cup {HostIn(i)}
            /\ mem' = [mem EXCEPT ![HostIn(i)] = Junk]
            /\ Memcpy(HostIn(i), DevIn(i))
    /\ i' = i + 1
    /\ UNCHANGED <<args, results, strided, pc, freed, capsule, seen, touched>>

\* Mutation of Call: the stream->wait() before it is left out.
CallNoWait(ok) ==
    /\ pc = "copyin" /\ i > Arity
    /\ capsule' = {HostIn(k) : k \in {k \in 1..Arity : args[k] = "array"}}
    /\ seen' = [k \in 1..Arity |-> mem[HostIn(k)]]
    /\ IF ok THEN pc' = "copyout" /\ i' = 1 ELSE pc' = "failed" /\ UNCHANGED i
    /\ UNCHANGED <<args, results, strided, mem, stream, alloc, freed, touched>>

\* stream->wait(), then wrap each host buffer in a read-only array whose
\* capsule deletes it, and callback->Call.  A call that fails (no result
\* tuple, status set) returns at once.
Call(ok) ==
    /\ pc = "copyin" /\ i > Arity
    /\ stream = <<>>
    /\ capsule' = {HostIn(k) : k \in {k \in 1..Arity : args[k] = "array"}}
    /\ seen' = [k \in 1..Arity |-> mem[HostIn(k)]]
    /\ IF ok THEN pc' = "copyout" /\ i' = 1 ELSE pc' = "failed" /\ UNCHANGED i
    /\ UNCHANGED <<args, results, strided, mem, stream, alloc, freed, touched>>

\* Mutation of CopyOut: a result with other strides is transposed into the
\* temporary but copied to the device straight from the array.
CopyOutNoTranspose(planOk) ==
    /\ pc = "copyout" /\ i =< NumResults
    /\ CASE results[i] = "token" ->
              UNCHANGED <<alloc, mem, stream, pc, freed>>
         [] strided[i] ->
              /\ Memcpy(DevOut(i), Arr(i))
              /\ UNCHANGED <<alloc, mem, pc, freed>>
         [] OTHER ->
              /\ alloc' = alloc \cup {Temp(i)}
              /\ IF planOk
                 THEN /\ mem' = [mem EXCEPT ![Temp(i)] = <<"res", i>>]
                      /\ Memcpy(DevOut(i), Arr(i))
                      /\ UNCHANGED <<pc, freed>>
                 ELSE /\ mem' = [mem EXCEPT ![Temp(i)] = Junk]
                      /\ pc' = "thrown"
                      /\ freed' = freed \cup ResultArrays(i)
                      /\ UNCHANGED stream
    /\ i' = i + 1
    /\ UNCHANGED <<args, results, strided, capsule, seen, touched>>

\* One iteration of the copy-out loop.  A token is skipped; an array with
\* the expected strides is copied from array.data(); otherwise a temporary
\* is allocated and pushed on temp_buffers, the transpose plan fetched
\* (throwing XlaRuntimeError if that fails), executed into the temporary,
\* and the temporary copied.  The throw unwinds the frame with the GIL
\* held and no wait: result_tuple is destroyed, and with it the arrays of
\* the results so far, while the copies queued from them may be pending
\* (temp_buffers holds raw pointers: the temporaries leak).
CopyOut(planOk) ==
    /\ pc = "copyout" /\ i =< NumResults
    /\ CASE results[i] = "token" ->
              UNCHANGED <<alloc, mem, stream, pc, freed>>
         [] strided[i] ->
              /\ Memcpy(DevOut(i), Arr(i))
              /\ UNCHANGED <<alloc, mem, pc, freed>>
         [] OTHER ->
              /\ alloc' = alloc \cup {Temp(i)}
              /\ IF planOk
                 THEN /\ mem' = [mem EXCEPT ![Temp(i)] = <<"res", i>>]
                      /\ Memcpy(DevOut(i), Temp(i))
                      /\ UNCHANGED <<pc, freed>>
                 ELSE /\ mem' = [mem EXCEPT ![Temp(i)] = Junk]
                      /\ pc' = "thrown"
                      /\ freed' = freed \cup ResultArrays(i)
                      /\ UNCHANGED stream
    /\ i' = i + 1
    /\ UNCHANGED <<args, results, strided, capsule, seen, touched>>

\* Mutation of Finish: the temporaries deleted before stream->wait().
FinishFreeFirst ==
    /\ pc = "copyout" /\ i > NumResults
    /\ freed' = freed \cup (alloc \cap {Temp(k) : k \in 1..NumResults})
                     \cup ResultArrays(NumResults)
    /\ pc' = "done"
    /\ UNCHANGED <<args, results, strided, i, mem, stream, alloc, capsule, seen, touched>>

\* Release the GIL, stream->wait(), delete every temporary, return; the
\* result tuple and its arrays are destroyed on the way out.
Finish ==
    /\ pc = "copyout" /\ i > NumResults
    /\ stream = <<>>
    /\ freed' = freed \cup (alloc \cap {Temp(k) : k \in 1..NumResults})
                     \cup ResultArrays(NumResults)
    /\ pc' = "done"
    /\ UNCHANGED <<args, results, strided, i, mem, stream, alloc, capsule, seen, touched>>

-----------------------------------------------------------------------------
(* The environment                                                          *)

\* The device completes the oldest queued copy.
Complete ==
    /\ stream # <<>>
    /\ LET c == Head(stream)
       IN /\ mem' = [mem EXCEPT ![c.dst] = mem[c.src]]
          /\ touched' = touched \cup ({c.src, c.dst} \cap freed)
    /\ stream' = Tail(stream)
    /\ UNCHANGED <<args, results, strided, pc, i, alloc, freed, capsule, seen>>

\* Python drops an input array once the callback has run: its capsule
\* deletes the host buffer.
PyRelease ==
    /\ \E b \in capsule \ freed : freed' = freed \cup {b}
    /\ UNCHANGED <<args, results, strided, pc, i, mem, stream, alloc, capsule, seen, touched>>

Init ==
    /\ args \in [1..Arity -> Kind]
    /\ results \in [1..NumResults -> Kind]
    /\ strided \in [1..NumResults -> BOOLEAN]
    /\ pc = "parse"
    /\ i = 0
    /\ mem = [l \in Loc |->
                CASE l[1] = "dev_in" -> <<"in", l[2]>>
                  [] l[1] = "arr"    -> IF strided[l[2]] THEN <<"res", l[2]>> ELSE <<"raw", l[2]>>
                  [] OTHER           -> Junk]
    /\ stream = <<>>
    /\ alloc = {} /\ freed = {} /\ capsule = {}
    /\ seen = <<>>
    /\ touched = {}

Next ==
    \/ Parse \/ CopyIn
    \/ \E ok \in BOOLEAN : Call(ok) \/ CopyOut(ok)
    \/ Finish
    \/ Complete \/ PyRelease

Spec == Init /\ [][Next]_vars

-----------------------------------------------------------------------------
(* Properties                                                               *)

\* Python never sees an input buffer the copy-in has not filled yet: the
\* stream->wait() before Call orders every input copy before it.
InputsCopiedBeforeCall ==
    seen # <<>> =>
        \A k \in 1..Arity : args[k] = "array" => seen[k] = <<"in", k>>

\* When the custom call returns normally every array result is on the
\* device in the expected layout, whatever its strides were.
OutputsWrittenOnReturn ==
    pc = "done" =>
        /\ stream = <<>>
        /\ \A k \in 1..NumResults : results[k] = "array" => mem[DevOut(k)] = <<"res", k>>

\* No queued copy reads or writes a host buffer the call allocated with
\* new char[] after it was deleted: the input buffers are deleted by their
\* capsules only after the wait before Call, the temporaries only after
\* the final wait, and a throw leaves the temporaries alone.
NoCopyOfCallBuffers == touched \cap alloc = {}

\* No queued copy reads host memory after it was freed, the result arrays
\* Python returned included: a copy from array.data() must not outlive
\* the array.
NoCopyOfFreed == touched = {}

=============================================================================
