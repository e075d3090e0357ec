--------------------------- MODULE TerminalInput ----------------------------
(***************************************************************************)
(* The way of a key: the keyboard interrupt puts it in keyboard_buffer_,   *)
(* the console thread takes it from there, draws it on the active terminal *)
(* and puts it in the terminal's FiFo, and user threads take it from the   *)
(* FiFo in readLine.                                                       *)
(*                                                                         *)
(* The FiFo is used under its mutex, so that a pass through its critical   *)
(* section is one step; a thread that waits is in the sequence of its      *)
(* condition (module KernelLocks shows that wait and signal may be taken   *)
(* like this).  keyboard_buffer_ is a RingBuffer with one reader and one   *)
(* writer: a bounded queue (module Pipe shows that).  CharacterDevice      *)
(* makes its FiFos with FIFO_NOBLOCK_PUT_OVERWRITE_OLD: nobody waits on    *)
(* space_to_write_.                                                        *)
(***************************************************************************)
EXTENDS Integers, Sequences, FiniteSets

CONSTANTS
    Console,       \* the console thread
    Readers,       \* user threads
    Terminals,
    TerminalOf,    \* the terminal of each user thread
    Size,          \* CD_BUFFER_SIZE, of a terminal's FiFo
    RingSize,      \* the size of keyboard_buffer_
    LineSize,      \* the size of the buffers given to readLine
    MaxKeys,       \* bound on the keys typed
    MaxPrints,     \* bound on the backspaces that programs write
    NULL

ASSUME InputAssumption ==
    /\ Console \notin Readers /\ IsFiniteSet(Readers)
    /\ Terminals \subseteq Nat /\ 0 \in Terminals
    /\ TerminalOf \in [Readers -> Terminals]
    /\ Size \in Nat /\ Size > 1
    /\ RingSize \in Nat /\ RingSize > 1
    /\ LineSize \in Nat /\ LineSize > 0
    /\ MaxKeys \in Nat /\ MaxPrints \in Nat

VARIABLES
    keyboard_status_,     \* the shift key is down
    keyboard_buffer_,     \* the sequence of keys in the ring
    active_terminal_,
    input_buffer_, ib_write_pos_, ib_read_pos_,   \* the FiFo of each terminal
    something_to_read_,   \* the waiters of each FiFo's condition
    console_lock_,        \* the thread that draws, or NULL
    pc,
    key,                  \* the key in the hand of the console thread
    counter,              \* the characters of a reader's line
    typed, printed,       \* numbers of keys, and of backspaces written
    echoed,               \* the keys drawn on each terminal as they were typed
    out                   \* the keys that have left each FiFo

keyboardVars == <<keyboard_status_, keyboard_buffer_, typed>>
fifoVars == <<input_buffer_, ib_write_pos_, ib_read_pos_, something_to_read_, out>>
vars == <<keyboardVars, active_terminal_, fifoVars, console_lock_, pc, key, counter,
          printed, echoed>>

Threads == Readers \cup {Console}

\* A key is a letter, the newline, the backspace, the shift key, or the
\* function key that stands for terminal n.
Key(kind, n) == [kind |-> kind, n |-> n]
Keys == {Key(kind, 0) : kind \in {"letter", "newline", "backspace", "shift"}}
            \cup {Key("function", n) : n \in Terminals}
IsDisplayable(k) == k.kind \in {"letter", "newline", "backspace"}

Init ==
    /\ keyboard_status_ = FALSE
    /\ keyboard_buffer_ = <<>>
    /\ active_terminal_ = 0
    /\ input_buffer_ = [t \in Terminals |-> [i \in 0..Size - 1 |-> Key("none", 0)]]
    /\ ib_write_pos_ = [t \in Terminals |-> 1]
    /\ ib_read_pos_ = [t \in Terminals |-> 0]
    /\ something_to_read_ = [t \in Terminals |-> <<>>]
    /\ console_lock_ = NULL
    /\ pc = [x \in Threads |-> IF x = Console THEN "poll" ELSE "user"]
    /\ key = NULL
    /\ counter = [x \in Readers |-> 0]
    /\ typed = 0 /\ printed = 0
    /\ echoed = [t \in Terminals |-> <<>>]
    /\ out = [t \in Terminals |-> <<>>]

Goto(x, label) == pc' = [pc EXCEPT ![x] = label]

-----------------------------------------------------------------------------
(* KeyboardManager::serviceIRQ *)

\* A key is pressed; it is lost if the ring is full.
KeyPressed(k) ==
    /\ typed < MaxKeys
    /\ typed' = typed + 1
    /\ keyboard_status_' = (keyboard_status_ \/ k.kind = "shift")
    /\ keyboard_buffer_' = IF Len(keyboard_buffer_) < RingSize - 1
                           THEN Append(keyboard_buffer_, k) ELSE keyboard_buffer_
    /\ UNCHANGED <<active_terminal_, fifoVars, console_lock_, pc, key, counter, printed, echoed>>

\* A key is released: only the shift key counts.
KeyReleased ==
    /\ keyboard_status_ = TRUE
    /\ keyboard_status_' = FALSE
    /\ UNCHANGED <<keyboard_buffer_, typed, active_terminal_, fifoVars, console_lock_, pc, key,
                   counter, printed, echoed>>

-----------------------------------------------------------------------------
(* FiFo *)

Following(i) == (i + 1) % Size

\* The keys in the buffer of a terminal, oldest first.
Contents(t) ==
    [i \in 1..(ib_write_pos_[t] - ib_read_pos_[t] - 1) % Size |->
        input_buffer_[t][(ib_read_pos_[t] + i) % Size]]

\* The terminal that a thread takes a key from.
Source(x) == IF x = Console THEN active_terminal_ ELSE TerminalOf[x]

Asleep(x) == \E t \in Terminals : \E i \in DOMAIN something_to_read_[t] :
                something_to_read_[t][i] = x

\* Condition::signal pops the thread that has waited longest.
Popped(q) == IF q = <<>> THEN q ELSE Tail(q)

\* put has something to read, and signals that.
\* MUTANT: only the first key in an empty buffer is signalled.
SignalFirst(t) ==
    something_to_read_' =
        [something_to_read_ EXCEPT ![t] = IF Contents(t) = <<>> THEN Popped(@) ELSE @]
SignalReader(t) == something_to_read_' = [something_to_read_ EXCEPT ![t] = Popped(@)]

\* A full buffer loses its oldest key to make room.
IsFull(t) == ib_write_pos_[t] = ib_read_pos_[t]
Overwrite(t) ==
    IF IsFull(t)
    THEN /\ ib_read_pos_' = [ib_read_pos_ EXCEPT ![t] = Following(@)]
         /\ out' = [out EXCEPT ![t] = Append(@, Head(Contents(t)))]
    ELSE UNCHANGED <<ib_read_pos_, out>>

\* FiFo::put, with which the console thread is done with its key.
Put ==
    LET t == active_terminal_ IN
    /\ pc[Console] = "put"
    /\ Overwrite(t)
    /\ SignalReader(t)
    /\ input_buffer_' = [input_buffer_ EXCEPT ![t][ib_write_pos_[t]] = key]
    /\ ib_write_pos_' = [ib_write_pos_ EXCEPT ![t] = Following(@)]
    /\ key' = NULL
    /\ Goto(Console, "poll")
    /\ UNCHANGED <<keyboardVars, active_terminal_, console_lock_, counter, printed, echoed>>

\* The loop around wait tests again when the thread has been woken.
\* MUTANT: the condition is tested once.
NothingBeforeWait(x) ==
    pc[x] = "get" /\ ib_write_pos_[Source(x)] = Following(ib_read_pos_[Source(x)])
NothingToRead(x) == ib_write_pos_[Source(x)] = Following(ib_read_pos_[Source(x)])

\* FiFo::get waits...
WaitToRead(x) ==
    /\ pc[x] \in {"get", "woken"} /\ ~Asleep(x)
    /\ NothingToRead(x)
    /\ something_to_read_' = [something_to_read_ EXCEPT ![Source(x)] = Append(@, x)]
    /\ Goto(x, "woken")
    /\ UNCHANGED <<keyboardVars, active_terminal_, input_buffer_, ib_write_pos_, ib_read_pos_,
                   out, console_lock_, key, counter, printed, echoed>>

\* ...or takes a key.
Take(x) ==
    LET t == Source(x) IN
    /\ pc[x] \in {"get", "woken"} /\ ~Asleep(x)
    /\ ~NothingToRead(x)
    /\ ib_read_pos_' = [ib_read_pos_ EXCEPT ![t] = Following(@)]
    /\ out' = [out EXCEPT ![t] = Append(@, input_buffer_[t][Following(ib_read_pos_[t])])]
    /\ UNCHANGED <<input_buffer_, ib_write_pos_, something_to_read_>>

\* FiFo::countElementsAhead; the difference is unsigned, 2^16 stands for 2^32.
CountElementsAhead(t) ==
    LET count == (ib_write_pos_[t] - ib_read_pos_[t]) % 2^16 IN
    IF count = 0 THEN Size ELSE count - 1

-----------------------------------------------------------------------------
(* Terminal *)

ReadLine(x) ==
    /\ x \in Readers /\ pc[x] = "user"
    /\ Goto(x, "get")
    /\ UNCHANGED <<keyboardVars, active_terminal_, fifoVars, console_lock_, key, counter, printed,
                   echoed>>

\* readLine ends with its newline or when the line is full.

ReadCharacter(x) ==
    LET cchar == input_buffer_[Source(x)][Following(ib_read_pos_[Source(x)])] IN
    /\ x \in Readers /\ console_lock_ # x
    /\ Take(x)
    /\ IF cchar.kind = "newline" \/ counter[x] + 1 = LineSize
       THEN Goto(x, "user") /\ counter' = [counter EXCEPT ![x] = 0]
       ELSE Goto(x, "get") /\ counter' = [counter EXCEPT ![x] = @ + 1]
    /\ UNCHANGED <<keyboardVars, active_terminal_, console_lock_, key, printed, echoed>>

\* A program writes a backspace to its terminal, which locks the console.
WriteBackspace(x) ==
    /\ x \in Readers /\ pc[x] = "user"
    /\ printed < MaxPrints /\ printed' = printed + 1
    /\ console_lock_ = NULL /\ console_lock_' = x
    /\ Goto(x, "count")
    /\ UNCHANGED <<keyboardVars, active_terminal_, fifoVars, key, counter, echoed>>

\* backspace returns, and so does write.
EndOfWrite(x) ==
    /\ console_lock_' = NULL
    /\ Goto(x, IF x = Console THEN "put" ELSE "user")

\* backspace takes a key if it believes that there is one.
Backspace(x) ==
    /\ pc[x] = "count"
    /\ IF CountElementsAhead(Source(x)) > 0
       THEN Goto(x, "get") /\ UNCHANGED console_lock_
       ELSE EndOfWrite(x)
    /\ UNCHANGED <<keyboardVars, active_terminal_, fifoVars, key, counter, printed, echoed>>

TakeBack(x) ==
    /\ console_lock_ = x
    /\ Take(x)
    /\ EndOfWrite(x)
    /\ UNCHANGED <<keyboardVars, active_terminal_, key, counter, printed, echoed>>

\* Letters are capital if the shift key is down now.
Remap(k) == IF k.kind = "letter" /\ keyboard_status_ = TRUE THEN Key("capital", k.n) ELSE k

-----------------------------------------------------------------------------
(* Console::Run *)

\* getKeyFromKbd; a function key selects a terminal if shift is down now.
NextKey ==
    LET k == Head(keyboard_buffer_) IN
    /\ pc[Console] = "poll" /\ keyboard_buffer_ # <<>>
    /\ keyboard_buffer_' = Tail(keyboard_buffer_)
    /\ \/ /\ IsDisplayable(k)
          /\ key' = Remap(k)
          /\ Goto(Console, "write")
       \/ /\ k.kind = "function" /\ keyboard_status_ = TRUE
          /\ key' = k
          /\ Goto(Console, "switch")
       \/ /\ ~IsDisplayable(k) /\ ~(k.kind = "function" /\ keyboard_status_ = TRUE)
          /\ UNCHANGED <<key, pc>>
    /\ UNCHANGED <<keyboard_status_, typed, active_terminal_, fifoVars, console_lock_, counter,
                   printed, echoed>>

\* Terminal::write draws the key, and has the lock until a backspace returns.
Write ==
    /\ pc[Console] = "write" /\ console_lock_ = NULL
    /\ echoed' = [echoed EXCEPT ![active_terminal_] = Append(@, key)]
    /\ IF key.kind = "backspace"
       THEN console_lock_' = Console /\ Goto(Console, "count")
       ELSE Goto(Console, "put") /\ UNCHANGED console_lock_
    /\ UNCHANGED <<keyboardVars, active_terminal_, fifoVars, key, counter, printed>>

\* setActiveTerminal draws the terminal anew.
SetActiveTerminal ==
    /\ pc[Console] = "switch" /\ console_lock_ = NULL
    /\ active_terminal_' = key.n
    /\ key' = NULL
    /\ Goto(Console, "poll")
    /\ UNCHANGED <<keyboardVars, fifoVars, console_lock_, counter, printed, echoed>>

-----------------------------------------------------------------------------
\* The steps of a thread inside the kernel.
ConsoleStep == NextKey \/ Write \/ SetActiveTerminal \/ Put
InKernel(x) == WaitToRead(x) \/ ReadCharacter(x) \/ Backspace(x) \/ TakeBack(x)

Next ==
    \/ \E k \in Keys : KeyPressed(k)
    \/ KeyReleased
    \/ ConsoleStep
    \/ \E x \in Threads : InKernel(x)
    \/ \E x \in Readers : ReadLine(x) \/ WriteBackspace(x)

\* Threads in the kernel get their turn (NobodyStarves of module Scheduler);
\* nobody needs to type, to read or to write.
Fairness ==
    /\ WF_vars(ConsoleStep)
    /\ \A x \in Threads : WF_vars(InKernel(x))

Spec == Init /\ [][Next]_vars /\ Fairness

-----------------------------------------------------------------------------
\* The key that has been drawn on t and is not in its buffer yet.
InHand(t) ==
    IF t = active_terminal_ /\ pc[Console] \in {"count", "get", "woken", "put"}
    THEN <<key>> ELSE <<>>

\* What the user sees is what the program gets: the keys drawn on a terminal
\* are, in this order and each of them once, those that have left its FiFo
\* (read, taken back or overwritten), those in it, and the one on its way.
\* readLine and backspace of several threads take from the same FiFo, and the
\* terminal can be switched between any two keys.
KeysComeOutAsEchoed == \A t \in Terminals : out[t] \o Contents(t) \o InHand(t) = echoed[t]

\* A thread reads from t.
IsRead(t) == \E x \in Readers :
    TerminalOf[x] = t /\ console_lock_ # x /\ pc[x] \in {"get", "woken"}

\* A thread waits in backspace for a key that is not there, and keeps the
\* console locked: countElementsAhead has told it that there is one, which is
\* wrong once the positions have wrapped around, or late.
BackspaceWaits ==
    console_lock_ # NULL /\ pc[console_lock_] = "woken" /\ Contents(Source(console_lock_)) = <<>>

\* Nobody waits for what is there: a key in the FiFo of a terminal that a
\* thread reads from is taken, whatever readers share the FiFo and whoever is
\* signalled; and keys leave keyboard_buffer_ unless a backspace waits with
\* the console locked.
KeysAreServed ==
    /\ \A t \in Terminals :
          (Contents(t) # <<>> /\ IsRead(t)) ~> (Contents(t) = <<>> \/ ~IsRead(t))
    /\ (keyboard_buffer_ # <<>>) ~> (keyboard_buffer_ = <<>> \/ BackspaceWaits)
=============================================================================
