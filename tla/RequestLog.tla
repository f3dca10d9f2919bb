----------------------------- MODULE RequestLog -----------------------------
(***************************************************************************)
(* The in-memory ring buffer behind GET /api/Requests                      *)
(* (src/src/sql_log/sql_requests_log.rs): one timeline for every mounted   *)
(* database, shared by every request handler of the process.               *)
(*                                                                         *)
(* `SqlRequestsLog::add` is two steps, not one: the id comes from an       *)
(* atomic counter BEFORE the mutex is taken, and only the push is under    *)
(* the mutex.  Other threads may run between the two, so the two steps are *)
(* two operators here and a module that logs uses them in two actions.     *)
(***************************************************************************)
EXTENDS Naturals, Sequences

CONSTANT
    MAX_ITEMS        \* capacity of the ring, 100 in the source

ASSUME MaxItemsAssumption == MAX_ITEMS \in Nat \ {0}

VARIABLES
    items,           \* the VecDeque, oldest entry first
    next_id          \* the AtomicU64 that numbers the entries

logVars == <<items, next_id>>

LogInit ==
    /\ items = << >>
    /\ next_id = 1

TakeIdByLoad == UNCHANGED next_id   \* mistake: a load, not a fetch_add

(***************************************************************************)
(* `next_id.fetch_add(1)`: the caller keeps the old value as its id.       *)
(***************************************************************************)
TakeId == next_id' = next_id + 1

(***************************************************************************)
(* What `while items.len() >= MAX_ITEMS { pop_front }` leaves behind.      *)
(***************************************************************************)
MakeRoom(queue) ==
    IF Len(queue) < MAX_ITEMS
    THEN queue
    ELSE SubSeq(queue, Len(queue) - MAX_ITEMS + 2, Len(queue))

(***************************************************************************)
(* The critical section of `add`: make room, then push at the back.        *)
(***************************************************************************)
PushItem(item) == items' = Append(MakeRoom(items), item)

(***************************************************************************)
(* `get_all`: the whole ring, reversed.                                    *)
(***************************************************************************)
GetAll == [i \in 1..Len(items) |-> items[Len(items) + 1 - i]]

=============================================================================
