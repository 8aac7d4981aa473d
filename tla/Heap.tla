----------------------------------- MODULE Heap -----------------------------------
(***************************************************************************)
(* The memory the HAL under the lab 2 program hands out (alt_sbrk.c,       *)
(* sys/alt_stack.h).  The heap grows from the data of the program towards  *)
(* its stack; built with checking, sbrk keeps the stack's limit at the end *)
(* of the heap and reports a stack that is below it.                       *)
(*                                                                         *)
(* All of sbrk runs with interrupts off, so a call is one step.  An        *)
(* application gives back only the top of what it has, as malloc does.     *)
(* sbrk does check its bounds: it refuses what __alt_heap_limit forbids.   *)
(***************************************************************************)
EXTENDS Integers

CONSTANTS
  HeapStart,        \* __alt_heap_start, in bytes
  HeapLimit,        \* __alt_heap_limit, or what ALT_MAX_HEAP_BYTES leaves of it
  Increments,       \* what sbrk is called with
  StackPointers     \* where the stack may have grown to at a call

ASSUME HeapAssumption ==
  /\ HeapStart \in Nat /\ HeapStart % 4 = 0 /\ HeapLimit \in Nat
  /\ Increments \subseteq Int /\ StackPointers \subseteq Nat

VARIABLES
  stack_check,      \* ALT_STACK_CHECK, as the program was built
  heap_end,
  alt_stack_limit,  \* register and its copy
  overflow,         \* reported: the processor stopped
  sp,               \* stack pointer at the last call
  block,            \* the last block handed out
  owned,            \* the others, less what was given back
  ragged            \* a block ended between two words

heapVars ==
  << stack_check, heap_end, alt_stack_limit, overflow, sp, block, owned, ragged >>

\* The next word boundary.
Aligned(address) == 4 * ((address + 3) \div 4)

\* Where the limit is the end of the heap it stays there, and the stack must be
\* above.  Anywhere else it is the limit of another stack.
StackFollows(from, to, pointer) ==
  IF stack_check /\ alt_stack_limit = from
    THEN alt_stack_limit' = to /\ overflow' = (pointer <= to)
    ELSE UNCHANGED << alt_stack_limit, overflow >>

\* On the exception stack alt_exception_old_stack_limit is the limit of the stack
\* that was interrupted, and becomes its limit again on return.  It is compared
\* with the heap instead of that stack's pointer: all growth is reported.
OldStackFollows(from, to) ==
  IF stack_check /\ alt_stack_limit = from
    THEN alt_stack_limit' = to /\ overflow' = (from <= to)
    ELSE UNCHANGED << alt_stack_limit, overflow >>

\* Faulty form: the heap goes on where it ended.
ExtendUnaligned(incr, pointer) ==
  /\ ~overflow /\ heap_end + incr <= HeapLimit
  /\ stack_check => pointer > alt_stack_limit
  /\ incr < 0 => heap_end + incr .. heap_end - 1 \subseteq owned \union block
  /\ heap_end' = heap_end + incr
  /\ block' = heap_end .. heap_end' - 1
  /\ owned' = {a \in owned \union block : a < heap_end + incr \/ incr >= 0}
  /\ sp' = pointer /\ ragged' = (ragged \/ heap_end' % 4 # 0)
  /\ UNCHANGED stack_check

\* The program has checked its own stack.
Extend(incr, pointer) ==
  /\ ~overflow /\ Aligned(heap_end) + incr <= HeapLimit
  /\ stack_check => pointer > alt_stack_limit
  /\ incr < 0 => heap_end + incr .. heap_end - 1 \subseteq owned \union block
  /\ heap_end' = Aligned(heap_end) + incr
  /\ block' = Aligned(heap_end) .. heap_end' - 1
  /\ owned' = {a \in owned \union block : a < heap_end + incr \/ incr >= 0}
  /\ sp' = pointer /\ ragged' = (ragged \/ heap_end' % 4 # 0)
  /\ UNCHANGED stack_check

\* Called by the program, and by an interrupt routine on a stack of its own.
Sbrk(incr, pointer) ==
  Extend(incr, pointer) /\ StackFollows(Aligned(heap_end), heap_end', pointer)
SbrkInException(incr, pointer) ==
  Extend(incr, pointer) /\ OldStackFollows(Aligned(heap_end), heap_end')

\* -1: nothing is handed out, but the heap ends on a word boundary now.
SbrkRefused(incr) ==
  /\ ~overflow /\ Aligned(heap_end) + incr > HeapLimit
  /\ heap_end' = Aligned(heap_end)
  /\ block' = {} /\ owned' = owned \union block
  /\ UNCHANGED << stack_check, alt_stack_limit, overflow, sp, ragged >>

HeapInit ==
  /\ stack_check \in BOOLEAN
  /\ heap_end = HeapStart /\ alt_stack_limit = HeapStart
  /\ overflow = FALSE /\ sp \in StackPointers
  /\ block = {} /\ owned = {} /\ ragged = FALSE

\* The report of an overflow stops the processor.
Halted == overflow /\ UNCHANGED heapVars

HeapNext ==
  Halted \/ \E incr \in Increments :
    \/ SbrkRefused(incr)
    \/ \E pointer \in StackPointers : Sbrk(incr, pointer) \/ SbrkInException(incr, pointer)

----------------------------------------------------------------------------
\* A block is the caller's alone, starts at a word, lies in the heap, and with stack
\* checking not in the stack unreported, after any sequence of growing, giving back
\* and refusals (ALT_SBRK, lines 76-129).  Known exception: after a block that ends
\* between two words the limit is no longer compared with the right address, and
\* stays behind for good; of the stack nothing is said from then on.
OwnMemory ==
  /\ block # {} =>
       /\ block \intersect owned = {}
       /\ block \subseteq HeapStart .. HeapLimit - 1
       /\ \E a \in block : a % 4 = 0 /\ \A b \in block : a <= b
  /\ stack_check /\ ~ragged => sp > heap_end \/ overflow
=============================================================================
