---------------------------- MODULE TerminalInput ----------------------------
(***************************************************************************)
(* What the user types on its way to the guest: serial_input looks up the  *)
(* descriptor of the focused machine's terminal and puts a message into    *)
(* the channel of the one input thread, which joins messages for the same  *)
(* session and writes them to a duplicate of the descriptor that it keeps  *)
(* while the number stays the same.  Descriptors are numbers, which the    *)
(* kernel gives out again.                                                 *)
(***************************************************************************)
EXTENDS Naturals, Sequences, FiniteSets, Functions

CONSTANTS
    InputVenvs,     \* the environments
    InputSessions,  \* shells of a machine
    MaxInputs,      \* bound: inputs typed
    MaxBoots,       \* bound: machines booted
    MaxBatch        \* MAX_BATCH_SIZE, in inputs

ASSUME InputAssumption == MaxBoots \in Nat

VARIABLES
    vms,        \* venv -> [machine, serial, terminal]; 0: there is none
    booted,     \* machines so far
    files,      \* descriptor -> the machine at the other end, 0 when closed
    typed,      \* inputs in their order: [machine, fd, session]
    channel,    \* the numbers of the inputs in terminal_input_tx
    thread,     \* the input thread: [pc, buf]
    current,    \* current_fd and the machine current_file leads to
    arrived     \* the inputs the guests got: [input, machine, session]

inputVars == <<vms, booted, files, typed, channel, thread, current, arrived>>

NoVm == [machine |-> 0, serial |-> 0, terminal |-> 0]
Descriptors == 1..(2 * MaxBoots)
Live == {vms[v].machine : v \in InputVenvs} \ {0}
Key(n) == <<typed[n].fd, typed[n].session>>

InputInit ==
    /\ vms = [v \in InputVenvs |-> NoVm] /\ booted = 0 /\ files = [d \in Descriptors |-> 0]
    /\ typed = << >> /\ channel = << >> /\ arrived = << >>
    /\ thread = [pc |-> "recv", buf |-> << >>] /\ current = [fd |-> 0, file |-> 0]

\* The kernel gives out the lowest free number.
LowestFree == CHOOSE d \in Descriptors : files[d] = 0 /\ \A e \in Descriptors : files[e] = 0 => d <= e

\* gui_boot_vm enters the machine with the pipe of its serial console.
MachineBoots(v) ==
    /\ vms[v] = NoVm /\ booted < MaxBoots
    /\ booted' = booted + 1
    /\ vms' = [vms EXCEPT ![v] = [machine |-> booted', serial |-> LowestFree, terminal |-> 0]]
    /\ files' = [files EXCEPT ![LowestFree] = booted']
    /\ UNCHANGED <<typed, channel, thread, current, arrived>>

\* setup_vsock has the terminal connection.
TerminalAttaches(v) ==
    /\ vms[v] # NoVm /\ vms[v].terminal = 0
    /\ vms' = [vms EXCEPT ![v].terminal = LowestFree]
    /\ files' = [files EXCEPT ![LowestFree] = vms[v].machine]
    /\ UNCHANGED <<booted, typed, channel, thread, current, arrived>>

\* stop_vm drops the machine, and its pipe with it; the connection is closed by
\* the framework, or lives on with the task that waits for more.  What arrives
\* while the machine winds down does not count.
MachineStops(v) ==
    /\ vms[v] # NoVm
    /\ \E ends \in {{vms[v].serial}, {vms[v].serial, vms[v].terminal}} :
          files' = [d \in Descriptors |-> IF d \in ends THEN 0 ELSE files[d]]
    /\ vms' = [vms EXCEPT ![v] = NoVm]
    /\ UNCHANGED <<booted, typed, channel, thread, current, arrived>>

TerminalFd(v) == IF vms[v].terminal = 0 THEN vms[v].serial ELSE vms[v].terminal

\* serial_input, with v in the focus.
SerialInput(v, s) ==
    /\ vms[v] # NoVm /\ Len(typed) < MaxInputs
    /\ typed' = Append(typed, [machine |-> vms[v].machine, fd |-> TerminalFd(v), session |-> s])
    /\ channel' = Append(channel, Len(typed'))
    /\ UNCHANGED <<vms, booted, files, thread, current, arrived>>

------------------------------------------------------------------------------
(* The input thread.                                                       *)

ThreadReceives ==
    /\ thread.pc = "recv" /\ channel # << >>
    /\ thread' = [pc |-> "coalesce", buf |-> <<Head(channel)>>]
    /\ channel' = Tail(channel)
    /\ UNCHANGED <<vms, booted, files, typed, current, arrived>>

\* Joins what is meant for the same machine, whichever the session.
JoinsMachine(n) == typed[n].fd = typed[thread.buf[1]].fd

Joins(n) == Key(n) = Key(thread.buf[1])

\* try_recv: a message for another session, or another machine, is taken out of
\* the channel and goes no further.
Coalesce ==
    /\ thread.pc = "coalesce" /\ Len(thread.buf) < MaxBatch /\ channel # << >>
    /\ thread' = IF Joins(Head(channel)) THEN [thread EXCEPT !.buf = Append(@, Head(channel))]
                 ELSE [thread EXCEPT !.pc = "write"]
    /\ channel' = Tail(channel)
    /\ UNCHANGED <<vms, booted, files, typed, current, arrived>>

BatchReady ==
    /\ thread.pc = "coalesce" /\ (channel = << >> \/ Len(thread.buf) >= MaxBatch)
    /\ thread' = [thread EXCEPT !.pc = "write"]
    /\ UNCHANGED <<vms, booted, files, typed, channel, current, arrived>>

\* The file of the last write serves again while the number is the same; one
\* frame for the session of the first message.
ThreadWrites ==
    LET first == typed[thread.buf[1]]
        file == IF current.fd = first.fd THEN current.file ELSE files[first.fd]
        frame == [i \in DOMAIN thread.buf |-> [input |-> thread.buf[i], machine |-> file, session |-> first.session]]
    IN /\ thread.pc = "write"
       /\ current' = [fd |-> first.fd, file |-> file]
       /\ arrived' = IF file \in Live THEN arrived \o frame ELSE arrived
       /\ thread' = [pc |-> "recv", buf |-> << >>]
       /\ UNCHANGED <<vms, booted, files, typed, channel>>

InputNext ==
    \/ \E v \in InputVenvs :
          MachineBoots(v) \/ TerminalAttaches(v) \/ MachineStops(v) \/ \E s \in InputSessions : SerialInput(v, s)
    \/ ThreadReceives \/ Coalesce \/ BatchReady \/ ThreadWrites

InputSpec == InputInit /\ [][InputNext]_inputVars

------------------------------------------------------------------------------
(* Properties.                                                             *)

\* What a shell gets was typed for it, once and in order, and for its machine
\* unless the machine it was typed for has stopped: descriptor numbers looked
\* up by serial_input and used later by the thread never lead from one live
\* machine to another.  And until a machine stops, an input is only lost when it
\* came directly after one for another session or another descriptor; at the
\* limit of a batch nothing is.
InputDelivered ==
    /\ \A i, j \in DOMAIN arrived : i < j => arrived[i].input < arrived[j].input
    /\ \A i \in DOMAIN arrived :
          LET t == typed[arrived[i].input]
          IN arrived[i].session = t.session /\ (arrived[i].machine = t.machine \/ t.machine \notin Live)
    /\ booted = Cardinality(Live) =>
          \A n \in DOMAIN typed :
              \/ n \in Range(channel) \cup Range(thread.buf)
              \/ \E i \in DOMAIN arrived : arrived[i].input = n
              \/ n > 1 /\ Key(n - 1) # Key(n)
==============================================================================
