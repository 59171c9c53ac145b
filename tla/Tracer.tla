------------------------------- MODULE Tracer -------------------------------
(***************************************************************************)
(* The tracer of gemOS (assignment_2, tracer.c, under do_syscall of        *)
(* entry.c) for one process: the trace buffer, a ring that records of      *)
(* traced system calls and of traced functions go to, the list of traced   *)
(* system calls, and the list of traced functions with the code that was   *)
(* patched.  Every system call, those of the tracer included, goes through *)
(* perform_tracing first and is refused if its record does not fit.        *)
(*                                                                         *)
(* The ring is counted in words of 8 bytes.  A plain read or write may     *)
(* tear a record and a record may be cut short; the model follows the ring *)
(* through that, and stops (lost) when a reader of records meets one that  *)
(* is not whole.  One buffer and one descriptor are modelled.              *)
(***************************************************************************)
EXTENDS InfoList, Sequences

CONSTANTS
  CallNodes,   \* the objects os_alloc can make nodes of for system calls,
  FnNodes,     \* and for functions
  RING,        \* words of the ring: TRACE_BUFFER_MAX_SIZE / 8, 512 in the code
  STRACE_MAX,  \* traced system calls: 16 in the code
  FTRACE_MAX,  \* traced functions: 16 in the code
  Listable,    \* the system calls a process puts on its list
  Fns,         \* the functions a process traces
  ARGS,        \* arguments of a traced function: at most 5 in the code
  DEPTH,       \* return addresses of a backtrace
  Modes,       \* the modes a trace buffer is made with
  Records,     \* records asked for at once
  Amounts      \* words asked for at once by plain reads and writes

ASSUME TracerAssumption ==
  /\ IsFiniteSet(CallNodes) /\ IsFiniteSet(FnNodes) /\ None \notin CallNodes \union FnNodes
  /\ RING \in Nat \ {0} /\ STRACE_MAX \in Nat /\ FTRACE_MAX \in Nat
  /\ ARGS \in Nat /\ DEPTH \in Nat /\ Records \subseteq Nat \ {0} /\ Amounts \subseteq Nat \ {0}
  /\ Modes \subseteq {"O_READ", "O_WRITE", "O_RDWR"}

\* The first bytes of a function: push rbp, an invalid instruction, or the
\* zeros of a backup that was never made.
Codes == {"push", "inv", "zero"}

\* struct strace_info and struct ftrace_info; none of them is a null pointer.
CallInfos == [key : Listable]
FnInfos == [key : Fns, backup : Codes, backtrace : BOOLEAN]

ASSUME InfoAssumption == None \notin CallInfos \union FnInfos

VARIABLES
  mode,     \* the mode of the trace buffer, or "closed"
  ring,     \* the trace buffer
  st,       \* strace_head without its list; base: it exists
  calls,    \* the list of traced system calls
  leaked,   \* nodes allocated for a list that was full
  fns,      \* the list of traced functions
  code,     \* the first bytes of each function: "push", "inv" or "zero"
  log,      \* ghost: the words written and not read, oldest first
  lost,     \* ghost: a reader met what is not a record
  spoiled,  \* ghost: functions enabled twice, or disabled and never enabled
  got       \* ghost: the words the last call returned

ringVars == <<mode, ring, log, lost>>
stVars == <<st, calls, leaked>>
fnVars == <<fns, code, spoiled>>
vars == <<mode, ring, st, calls, leaked, fns, code, log, lost, spoiled, got>>

Gone == [gone |-> TRUE]
Size(n) == [size |-> n]
Name(x) == [name |-> x]
Arg == [arg |-> TRUE]
Raw == [raw |-> TRUE]
Beyond == [beyond |-> TRUE]

Nothing == [call |-> "none", words |-> <<>>]

EmptyRing ==
  [buffer |-> [i \in 0..(RING - 1) |-> Gone],
   read_pos |-> 0, write_pos |-> 0, remaining_data |-> 0]

-----------------------------------------------------------------------------
(* The ring                                                                *)

Room(r) == RING - r.remaining_data

\* trace_buffer_write: as many words as there is room for.
Put(r, words) ==
  LET n == IF Len(words) > Room(r) THEN Room(r) ELSE Len(words)
  IN  [r EXCEPT
        !.buffer = [i \in 0..(RING - 1) |->
                      LET k == (i - r.write_pos) % RING
                      IN  IF k < n THEN words[k + 1] ELSE r.buffer[i]],
        !.write_pos = (@ + n) % RING,
        !.remaining_data = @ + n]

\* n words from read_pos on are read and not looked at again.
Taken(r, n) ==
  [r EXCEPT
     !.buffer = [i \in 0..(RING - 1) |->
                   IF (i - r.read_pos) % RING < n THEN Gone ELSE r.buffer[i]],
     !.read_pos = (@ + n) % RING]

Word(r, k) == r.buffer[(r.read_pos + k) % RING]

\* Mutant: only what the record says is subtracted, its first word is not.
LeftWithoutHeader(remaining, size) ==
  IF size + 1 < remaining THEN remaining - size ELSE 0

LeftAfter(remaining, size) ==
  IF size + 1 < remaining THEN remaining - (size + 1) ELSE 0

\* Mutant: a record comes with its size before it.
TakeCallWithSize(r) ==
  LET size == Word(r, 0).size
  IN  [ring |-> [Taken(r, size + 1) EXCEPT
                   !.remaining_data = LeftAfter(r.remaining_data, size)],
       words |-> [k \in 1..size |-> Word(r, k - 1)]]

\* Both give a ring and the words a reader gets from its first record.
\* sys_read_strace: nothing is left if the record is all there is.
TakeCall(r) ==
  LET size == Word(r, 0).size
  IN  [ring |-> [Taken(r, size + 1) EXCEPT
                   !.remaining_data = LeftAfter(r.remaining_data, size)],
       words |-> [k \in 1..size |-> Word(r, k)]]

\* sys_read_ftrace: when the size is in the last word of the ring, the word
\* after it is looked for behind the ring.
TakeFn(r) ==
  LET size == Word(r, 0).size
  IN  [ring |-> [Taken(r, size + 1) EXCEPT !.remaining_data = @ - (size + 1)],
       words |-> [k \in 1..size |->
                    IF k = 1 /\ r.read_pos = RING - 1 THEN Beyond ELSE Word(r, k)]]

\* What a call of either kind takes next.
Take(c, r) == IF c = "read_strace" THEN TakeCall(r) ELSE TakeFn(r)

\* The loop of a reader, count times while there is data.
Reading(c, r, count) ==
  LET f[i \in 0..count] ==
        IF i = 0 THEN [ring |-> r, words |-> <<>>]
        ELSE IF f[i - 1].ring.remaining_data = 0 THEN f[i - 1]
        ELSE LET one == Take(c, f[i - 1].ring)
             IN  [ring |-> one.ring, words |-> f[i - 1].words \o one.words]
  IN  f[count]

\* The same on a queue of words: what is said and what stays, or torn if the
\* first word of what stays is not the size of a record that is there.
Whole(l) == DOMAIN Head(l) = {"size"} /\ Head(l).size < Len(l)

Unframed(l, count) ==
  LET f[i \in 0..count] ==
        IF i = 0 THEN [stays |-> l, said |-> <<>>, torn |-> FALSE]
        ELSE LET p == f[i - 1]
             IN  IF p.stays = <<>> \/ p.torn THEN p
                 ELSE IF ~Whole(p.stays) THEN [p EXCEPT !.torn = TRUE]
                 ELSE LET n == Head(p.stays).size
                      IN  [p EXCEPT !.stays = SubSeq(@, n + 2, Len(@)),
                                    !.said = @ \o SubSeq(p.stays, 2, n + 1)]
  IN  f[count]

-----------------------------------------------------------------------------
(* Tracing of system calls                                                 *)

\* The parameters perform_tracing writes: 0 for a call its table does not
\* have, as read_ftrace.
ParamSize(c) ==
  CASE c \in {"read_strace", "ftrace", "read", "write"} -> 3
    [] c \in {"start_strace", "strace"} -> 2
    [] c \in {"end_strace", "trace_buffer", "close"} -> 1
    [] c \in {"getpid", "read_ftrace"} -> 0

Calls == {"read_strace", "ftrace", "read", "write", "start_strace", "strace",
          "end_strace", "trace_buffer", "close", "getpid", "read_ftrace"}

Record(x, n) == <<Size(n + 1), Name(x)>> \o [k \in 1..n |-> Arg]

\* Calls with as many parameters leave the same record here.
CallRecord(c) == Record("call", ParamSize(c))

Keys(l) == {l.info[n].key : n \in InList(l)}

Traced(c) ==
  /\ st.base /\ st.traced
  /\ IF st.filtered THEN c \in Keys(calls) ELSE c # "end_strace"

CanWrite == mode \in {"O_WRITE", "O_RDWR"}
CanRead == mode \in {"O_READ", "O_RDWR"}

\* As many words as fit in r are written behind the others.
Logged(l, r, words) ==
  l \o SubSeq(words, 1, IF Len(words) > Room(r) THEN Room(r) ELSE Len(words))

\* The ring and the log when the handler of c begins.
RingAt(c) == IF Traced(c) /\ CanWrite THEN Put(ring, CallRecord(c)) ELSE ring
LogAt(c) == IF Traced(c) /\ CanWrite THEN Logged(log, ring, CallRecord(c)) ELSE log

Fits(c) == CanWrite /\ Len(CallRecord(c)) <= Room(ring)

\* do_syscall goes on to the handler of c, with c recorded.
Through(c) == ~lost /\ (Traced(c) => Fits(c))

Recorded(c) ==
  /\ Through(c) /\ ring' = RingAt(c) /\ log' = LogAt(c)
  /\ got' = Nothing /\ UNCHANGED <<mode, lost>>

\* do_syscall gives up on c: its record was not written whole.
Refused(c) ==
  /\ ~lost /\ Traced(c) /\ ~Fits(c)
  /\ ring' = RingAt(c) /\ log' = LogAt(c) /\ got' = Nothing
  /\ UNCHANGED <<mode, lost>> /\ UNCHANGED stVars /\ UNCHANGED fnVars

-----------------------------------------------------------------------------
(* The handlers of the trace buffer                                        *)

Init ==
  /\ mode = "closed" /\ ring = EmptyRing /\ log = <<>> /\ lost = FALSE
  /\ st = [base |-> FALSE, traced |-> FALSE, filtered |-> FALSE]
  /\ calls = EmptyList(CallNodes) /\ leaked = {}
  /\ fns = EmptyList(FnNodes) /\ code = [f \in Fns |-> "push"] /\ spoiled = {}
  /\ got = Nothing

\* sys_create_trace_buffer on the free descriptor.  A traced call has nowhere
\* to write its record while the buffer is closed.
CreateTraceBuffer(m) ==
  /\ ~lost /\ ~Traced("trace_buffer") /\ mode = "closed"
  /\ mode' = m /\ ring' = EmptyRing /\ log' = <<>> /\ got' = Nothing
  /\ UNCHANGED lost /\ UNCHANGED stVars /\ UNCHANGED fnVars

\* do_close and trace_buffer_close.
Close ==
  /\ Through("close") /\ mode # "closed"
  /\ mode' = "closed" /\ ring' = EmptyRing /\ log' = <<>> /\ got' = Nothing
  /\ UNCHANGED lost /\ UNCHANGED stVars /\ UNCHANGED fnVars

\* trace_buffer_read: words, whatever records they are of.
Read(count) ==
  LET r == RingAt("read")
      n == IF count >= r.remaining_data THEN r.remaining_data ELSE count
  IN  /\ Through("read") /\ CanRead
      /\ ring' = [Taken(r, n) EXCEPT !.remaining_data = @ - n]
      /\ log' = SubSeq(LogAt("read"), n + 1, Len(LogAt("read")))
      /\ got' = [call |-> "read", words |-> [k \in 1..n |-> Word(r, k - 1)]]
      /\ UNCHANGED <<mode, lost>> /\ UNCHANGED stVars /\ UNCHANGED fnVars

\* trace_buffer_write, called by the process itself.
Write(count) ==
  LET words == [k \in 1..count |-> Raw]
  IN  /\ Through("write") /\ CanWrite
      /\ ring' = Put(RingAt("write"), words)
      /\ log' = Logged(LogAt("write"), RingAt("write"), words)
      /\ got' = Nothing
      /\ UNCHANGED <<mode, lost>> /\ UNCHANGED stVars /\ UNCHANGED fnVars

\* sys_read_strace and sys_read_ftrace, which do not look at the mode.
ReadRecords(c, count) ==
  LET queue == Unframed(LogAt(c), count)
      result == Reading(c, RingAt(c), count)
  IN  /\ Through(c) /\ mode # "closed"
      /\ IF queue.torn
         THEN lost' = TRUE /\ got' = Nothing /\ UNCHANGED <<ring, log>>
         ELSE /\ ring' = result.ring /\ got' = [call |-> c, words |-> result.words]
              /\ log' = queue.stays
              /\ UNCHANGED lost
      /\ UNCHANGED mode /\ UNCHANGED stVars /\ UNCHANGED fnVars

ReadStrace(count) == ReadRecords("read_strace", count)
ReadFtrace(count) == ReadRecords("read_ftrace", count)

-----------------------------------------------------------------------------
(* The handlers of system call tracing                                     *)

GetPid == Recorded("getpid") /\ UNCHANGED stVars /\ UNCHANGED fnVars

\* add_strace: the node is allocated before the list is found to be full.
\* A system call may be listed twice.
AddStrace(c) ==
  /\ Recorded("strace")
  /\ st' = [st EXCEPT !.base = TRUE]
  /\ IF Unused(calls) \ leaked = {} THEN UNCHANGED <<calls, leaked>>
     ELSE \E n \in Unused(calls) \ leaked :
            IF calls.count >= STRACE_MAX
            THEN leaked' = leaked \union {n} /\ UNCHANGED calls
            ELSE calls' = AddLast(calls, n, [key |-> c]) /\ UNCHANGED leaked
  /\ UNCHANGED fnVars

\* The first node for x, if there is one.
Found(l, x) == {n \in InList(l) : l.info[n].key = x}
Find(l, x) ==
  LET k == CHOOSE i \in 0..Cardinality(NodesOf(l)) :
             /\ At(l)[i] \in Found(l, x)
             /\ \A j \in 0..(i - 1) : At(l)[j] \notin Found(l, x)
  IN  At(l)[k]

\* remove_strace, with a base.
RemoveStrace(c) ==
  /\ Recorded("strace") /\ st.base
  /\ calls' = IF Found(calls, c) = {} THEN calls ELSE Unlink(calls, Find(calls, c))
  /\ UNCHANGED <<st, leaked>> /\ UNCHANGED fnVars

\* sys_strace.
ListCall(c) == AddStrace(c) \/ RemoveStrace(c)

StartStrace(filtered) ==
  /\ Recorded("start_strace")
  /\ st' = [base |-> TRUE, traced |-> TRUE, filtered |-> filtered]
  /\ UNCHANGED <<calls, leaked>> /\ UNCHANGED fnVars

EndStrace ==
  /\ Recorded("end_strace")
  /\ st' = [base |-> FALSE, traced |-> FALSE, filtered |-> FALSE]
  /\ calls' = EmptyList(CallNodes) /\ UNCHANGED leaked /\ UNCHANGED fnVars

-----------------------------------------------------------------------------
(* The handlers of function tracing                                        *)

FtraceCall == Recorded("ftrace") /\ UNCHANGED stVars

Listed(f) == Found(fns, f) # {}

\* add_ftrace; a new node has no backup yet, only the zeros of bzero.
AddFtrace(f) ==
  /\ FtraceCall
  /\ fns' \in IF Listed(f) \/ fns.count >= FTRACE_MAX THEN {fns}
              ELSE {AddLast(fns, n, [key |-> f, backup |-> "zero", backtrace |-> FALSE])
                      : n \in Unused(fns)}
  /\ UNCHANGED <<code, spoiled>>

\* enable_ftrace complains when it does not find push rbp, and goes on.
EnableFtrace(f) ==
  /\ FtraceCall /\ Listed(f)
  /\ fns' = [fns EXCEPT !.info[Find(fns, f)].backup = code[f]]
  /\ code' = [code EXCEPT ![f] = "inv"]
  /\ spoiled' = IF code[f] = "push" THEN spoiled ELSE spoiled \union {f}

\* disable_ftrace with check_invalid puts the backup back whatever is there.
DisableFtrace(f) ==
  /\ FtraceCall /\ Listed(f)
  /\ LET backup == fns.info[Find(fns, f)].backup
     IN  /\ code' = [code EXCEPT ![f] = backup]
         /\ spoiled' = IF backup = "push" THEN spoiled ELSE spoiled \union {f}
  /\ UNCHANGED fns

\* Mutant: the code of a function that is removed stays patched.
LeftPatched(f) == code

\* disable_ftrace without check_invalid, for remove_ftrace.
Unpatched(f) ==
  IF code[f] = "inv" THEN [code EXCEPT ![f] = fns.info[Find(fns, f)].backup] ELSE code

RemoveFtrace(f) ==
  /\ FtraceCall /\ Listed(f)
  /\ code' = Unpatched(f)
  /\ fns' = Unlink(fns, Find(fns, f))
  /\ UNCHANGED spoiled

\* enable_backtrace and disable_backtrace.
SetBacktrace(f, on) ==
  /\ FtraceCall /\ Listed(f)
  /\ fns' = [fns EXCEPT !.info[Find(fns, f)].backtrace = on]
  /\ UNCHANGED <<code, spoiled>>

\* ftrace_file_write, to a buffer that may be written.
FtraceFileWrite(words) ==
  /\ CanWrite
  /\ ring' = Put(ring, words) /\ log' = Logged(log, ring, words)

FtraceNotListed(f) == FtraceCall /\ ~Listed(f) /\ UNCHANGED fnVars

\* handle_ftrace_fault, when a patched function is called: the record is
\* written as far as it goes, and the function runs on.
FunctionCalled(f) ==
  LET info == fns.info[Find(fns, f)]
      words == Record(f, ARGS + IF info.backtrace THEN DEPTH ELSE 0)
  IN  /\ ~lost /\ code[f] = "inv" /\ Listed(f)
      /\ FtraceFileWrite(words)
      /\ got' = Nothing
      /\ UNCHANGED <<mode, lost>> /\ UNCHANGED stVars /\ UNCHANGED fnVars

-----------------------------------------------------------------------------
TraceBufferCall ==
  \/ \E m \in Modes : CreateTraceBuffer(m)
  \/ Close
  \/ \E n \in Amounts : Read(n) \/ Write(n)
  \/ \E n \in Records : ReadStrace(n) \/ ReadFtrace(n)

StraceCall ==
  \/ GetPid
  \/ \E c \in Listable : ListCall(c)
  \/ \E filtered \in BOOLEAN : StartStrace(filtered)
  \/ EndStrace

FunctionCall ==
  \E f \in Fns :
    \/ AddFtrace(f) \/ EnableFtrace(f) \/ DisableFtrace(f) \/ RemoveFtrace(f)
    \/ \E on \in BOOLEAN : SetBacktrace(f, on)
    \/ FtraceNotListed(f) \/ FunctionCalled(f)

Next ==
  \/ TraceBufferCall \/ StraceCall \/ FunctionCall
  \/ \E c \in Calls : Refused(c)

Spec == Init /\ [][Next]_vars

-----------------------------------------------------------------------------
(* Properties                                                              *)

\* The three integers of the trace buffer agree, whichever of the writers and
\* readers moved them, and the words from read_pos on are those written and
\* not yet read, in their order: nothing was overwritten or read twice, though
\* writers cut short what does not fit and a refused call leaves its beginning.
RingHoldsLog ==
  /\ ring.read_pos \in 0..(RING - 1) /\ ring.write_pos \in 0..(RING - 1)
  /\ ring.remaining_data \in 0..RING
  /\ (ring.write_pos - ring.read_pos - ring.remaining_data) % RING = 0
  /\ [k \in 1..ring.remaining_data |-> Word(ring, k - 1)] = log

\* Both lists are what their counts and pointers say: every node that was
\* added and not removed is reached from the front, and the last one is last.
ListSound == Sound(calls) /\ Sound(fns)

\* A function is patched only while its first bytes are kept in the list, so
\* tracing it can be undone: unless the process enabled it twice or disabled
\* it before it enabled it.
CodeRestorable ==
  \A f \in Fns \ spoiled :
    \/ code[f] = "push"
    \/ /\ code[f] = "inv" /\ Listed(f)
       /\ fns.info[Find(fns, f)].backup = "push"

\* read_strace and read_ftrace return what the oldest records say, and take
\* them out whole, their own record among them if they are traced; only a word
\* of a function's record may be one from behind the ring.
ReadsRecords ==
  [][got'.call \in {"read_strace", "read_ftrace"} =>
       \E l \in {log, log \o CallRecord(got'.call)}, n \in Records :
         LET queue == Unframed(l, n)
         IN  /\ log' = queue.stays
             /\ Len(got'.words) = Len(queue.said)
             /\ \A i \in 1..Len(queue.said) :
                  got'.words[i] \in {queue.said[i], Beyond}]_vars
=============================================================================
