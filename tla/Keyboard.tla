------------------------------- MODULE Keyboard -------------------------------
(***************************************************************************)
(* The keyboard driver: the interrupt handler turns scan codes into key      *)
(* codes and puts them in a ring, and threads that read a key sleep on a     *)
(* wait queue until there is one.  The handler, and a reader between two     *)
(* sleeps, run with interrupts disabled: each is a step.                     *)
(*                                                                         *)
(* A key code says which key it is and which flags are set; nr numbers the   *)
(* codes that found room in the ring.                                       *)
(***************************************************************************)
EXTENDS Naturals, Sequences, FiniteSets

CONSTANTS
  Readers,        (* the threads that call Wait_For_Key or Read_Key           *)
  QUEUE_SIZE,
  MaxKeys,        (* bound: key codes put in the ring                         *)
  None,
  Shifts          (* the shift and control keys                              *)

(* Scan codes: a letter, the shift keys, the prefix of keys that an *)
(* 83-key keyboard has not, and one behind the end of the tables.               *)
ScanCodes == {"letter", "unknown"} \cup Shifts
Prefix    == "prefix"

VARIABLES
  shiftState,     (* s_shiftState: a set of Shifts and "escape"               *)
  queue, head, tail,
  keys,           (* the key codes put in the ring                            *)
  waitQueue,      (* s_waitQueue                                             *)
  reader,         (* each thread: "user", "reading", "waiting"                *)
  got             (* the number of the last key code read, by any thread      *)

vars == <<shiftState, queue, head, tail, keys, waitQueue, reader, got>>

NEXT(index) == (index + 1) % QUEUE_SIZE
NoKey == [key |-> None, flags |-> {}, nr |-> 0]

Init ==
  /\ shiftState = {}
  /\ queue = [i \in 0..(QUEUE_SIZE - 1) |-> NoKey] /\ head = 0 /\ tail = 0 /\ keys = 0
  /\ waitQueue = {} /\ reader = [t \in Readers |-> "user"]
  /\ got = 0

Is_Queue_Empty == head = tail
Is_Queue_Full  == NEXT(tail) = head

(* Mutant of Enqueue_Keycode: the oldest key code is overwritten.              *)
EnqueueAlways(key, flags) ==
  /\ queue' = [queue EXCEPT ![tail] = [key |-> key, flags |-> flags, nr |-> keys + 1]]
  /\ tail' = NEXT(tail) /\ keys' = keys + 1
Enqueue_Keycode(key, flags) ==
  IF Is_Queue_Full THEN UNCHANGED <<queue, tail, keys>>
  ELSE /\ queue' = [queue EXCEPT ![tail] = [key |-> key, flags |-> flags, nr |-> keys + 1]]
       /\ tail' = NEXT(tail) /\ keys' = keys + 1

Wake_Up == /\ waitQueue' = {}
           /\ reader' = [t \in Readers |-> IF t \in waitQueue THEN "reading" ELSE reader[t]]

(* noflagchange: shift is whether a shift key was down before this one.         *)
Queue(key, shift, release, state) ==
  /\ keys < MaxKeys
  /\ Enqueue_Keycode(key, (IF shift THEN {"shift"} ELSE {}) \cup (state \ {"shift", "escape"})
                          \cup (IF release THEN {"release"} ELSE {}))
  /\ Wake_Up
  /\ UNCHANGED <<head, got>>

(* The prefix: shift has no value yet when it is looked at.                     *)
PrefixInterrupt ==
  /\ shiftState' = shiftState \cup {"escape"}
  /\ \E shift \in BOOLEAN : Queue(Prefix, shift, FALSE, shiftState')

(* A scan code behind the tables is left at once, and leaves the prefix set.     *)
UnknownInterrupt == UNCHANGED vars

(* Behind the prefix the scan code itself is the key code, also of a shift key.  *)
KeyInterrupt(code, release) ==
  /\ code # "unknown" /\ (code \in Shifts => "escape" \in shiftState)
  /\ shiftState' = shiftState \ {"escape"}
  /\ Queue(IF "escape" \in shiftState THEN <<"raw", code>> ELSE <<"key", code>>,
           "shift" \in shiftState, release, shiftState')

ShiftInterrupt(code, release) ==
  /\ code \in Shifts /\ "escape" \notin shiftState
  /\ shiftState' = IF release THEN shiftState \ {code} ELSE shiftState \cup {code}
  /\ UNCHANGED <<queue, head, tail, keys, waitQueue, reader, got>>

Keyboard_Interrupt_Handler ==
  \/ PrefixInterrupt
  \/ UnknownInterrupt
  \/ \E code \in ScanCodes, release \in BOOLEAN : KeyInterrupt(code, release) \/ ShiftInterrupt(code, release)

Dequeue_Keycode == got' = queue[head].nr /\ head' = NEXT(head)

(* Wait_For_Key, up to its next sleep or its end.                              *)
CallWait(t) ==
  /\ reader[t] = "user"
  /\ reader' = [reader EXCEPT ![t] = "reading"]
  /\ UNCHANGED <<shiftState, queue, head, tail, keys, waitQueue, got>>
TakeKey(t) ==
  /\ reader[t] = "reading" /\ ~Is_Queue_Empty
  /\ Dequeue_Keycode
  /\ reader' = [reader EXCEPT ![t] = "user"]
  /\ UNCHANGED <<shiftState, queue, tail, keys, waitQueue>>
Sleep(t) ==
  /\ reader[t] = "reading" /\ Is_Queue_Empty
  /\ waitQueue' = waitQueue \cup {t}
  /\ reader' = [reader EXCEPT ![t] = "waiting"]
  /\ UNCHANGED <<shiftState, queue, head, tail, keys, got>>
Wait_For_Key(t) == CallWait(t) \/ TakeKey(t) \/ Sleep(t)

Read_Key(t) ==
  /\ reader[t] = "user" /\ ~Is_Queue_Empty
  /\ Dequeue_Keycode
  /\ UNCHANGED <<shiftState, queue, tail, keys, waitQueue, reader>>

Next == Keyboard_Interrupt_Handler \/ \E t \in Readers : Wait_For_Key(t) \/ Read_Key(t)

Spec == Init /\ [][Next]_vars

-----------------------------------------------------------------------------
(* Properties *)

Pending == [i \in 1..((tail + QUEUE_SIZE - head) % QUEUE_SIZE) |-> queue[(head + i - 1) % QUEUE_SIZE].nr]

(* Readers get every key code that found room, once and in order, and no reader   *)
(* sleeps while one is left, however interrupts and readers alternate            *)
(* (keyboard.c:144, 259, 338).                                                 *)
KeysReachReaders ==
  /\ Pending = [i \in 1..(keys - got) |-> got + i]
  /\ waitQueue # {} => Is_Queue_Empty
  /\ waitQueue = {t \in Readers : reader[t] = "waiting"}
=============================================================================
