---------------------------------- MODULE Caches ----------------------------------
(***************************************************************************)
(* How the HAL under the lab 2 program keeps the two caches of the         *)
(* processor from serving old contents (alt_dcache_flush.c,                *)
(* alt_icache_flush.c, alt_load.c, alt_remap_uncached.c).  A program       *)
(* stores words and then flushes them: to execute them, to start from      *)
(* flash, or to go on with them uncached; or a device stores words past    *)
(* the data cache and the program drops what the cache has of them         *)
(* (alt_dcache_flush_no_writeback.c).  Meanwhile other code, also that of  *)
(* interrupts, is fetched, and loads and stores its own data, so that      *)
(* lines come back and go between any two steps.                           *)
(*                                                                         *)
(* Both caches are direct-mapped.  Instructions are fetched from memory,   *)
(* never from the data cache.  Addresses count words.                      *)
(***************************************************************************)
EXTENDS Integers, FiniteSetsExt

CONSTANTS
  LineWords,        \* words in a line
  DLines, ILines,   \* lines of each cache
  MemLines,         \* lines of memory
  Ranges,           \* start and len of what is stored and flushed
  Sections,         \* of the program: where they are linked, and where they run
  NoLine

ASSUME CachesAssumption ==
  /\ LineWords \in Nat \ {0} /\ DLines \in Nat \ {0} /\ ILines \in Nat \ {0}
  /\ NoLine \notin Nat

VARIABLES
  flushda,          \* the processor can flush by address
  dline, dirty,     \* the line in each place of the data cache; places to write back
  old,              \* its places whose contents a device has changed in memory
  iline, stale,     \* the same of the other; places whose contents are out of date
  task,             \* what the program does, and in which words
  doing, todo, pass \* how far it is: words to store, passes of the loop

cacheVars == << flushda, dline, dirty, old, iline, stale, task, doing, todo, pass >>

Line(word) == word \div LineWords
DPlace(line) == line % DLines
IPlace(line) == line % ILines

InDirty(line) == dline[DPlace(line)] = line /\ DPlace(line) \in dirty

----------------------------------------------------------------------------
(* The processor.                                                          *)

\* A line comes into the data cache, and what was in its place is written back.
Allocate(line, store) ==
  /\ dline' = [dline EXCEPT ![DPlace(line)] = line]
  /\ dirty' = IF store THEN dirty \union {DPlace(line)}
              ELSE IF dline[DPlace(line)] = line THEN dirty ELSE dirty \ {DPlace(line)}
  /\ old' = IF dline[DPlace(line)] = line THEN old ELSE old \ {DPlace(line)}

\* The lines of a task, and those of them that have nothing else in them.
Lines    == IF doing = "choose" THEN {} ELSE {Line(w) : w \in task.words}
Whole(line) == \A w \in 0 .. MemLines * LineWords - 1 : Line(w) = line => w \in task.words

\* What is used uncached is loaded and stored by nobody else; a line it shares with
\* other data is.
Load(line) ==
  /\ task.way = "uncached" => line \notin Lines \/ ~Whole(line)
  /\ Allocate(line, FALSE)
  /\ UNCHANGED << flushda, iline, stale, task, doing, todo, pass >>

\* Code and a device's buffer share no line with data that is stored meanwhile.
StoreOther(line) ==
  /\ line \notin Lines \/ (task.way = "uncached" /\ ~Whole(line))
  /\ Allocate(line, TRUE)
  /\ stale' = IF iline[IPlace(line)] = line THEN stale \union {IPlace(line)} ELSE stale
  /\ UNCHANGED << flushda, iline, task, doing, todo, pass >>

Fetch(line) ==
  /\ iline[IPlace(line)] # line
  /\ iline' = [iline EXCEPT ![IPlace(line)] = line]
  /\ stale' = IF InDirty(line) THEN stale \union {IPlace(line)} ELSE stale \ {IPlace(line)}
  /\ UNCHANGED << flushda, dline, dirty, old, task, doing, todo, pass >>

----------------------------------------------------------------------------
(* The program.                                                            *)

\* alt_load copies what does not run where it is linked.
Copied ==
  UNION {s.to .. s.to + s.size - 1 : s \in {t \in Sections : t.from # t.to}}

Tasks ==
  {[way |-> "load", words |-> Copied, start |-> 0, len |-> 0]}
  \union {[way |-> way, words |-> r.start .. r.start + r.len - 1,
           start |-> r.start, len |-> r.len] : way \in {"code", "uncached", "receive"}, r \in Ranges}

\* A buffer that a device is to fill has been flushed by the program before.
Choose(t) ==
  /\ doing = "choose"
  /\ t.way = "receive" => \A w \in t.words : ~InDirty(Line(w))
  /\ task' = t /\ todo' = t.words /\ doing' = "store"
  /\ UNCHANGED << flushda, dline, dirty, old, iline, stale, pass >>

Store ==
  /\ doing = "store" /\ todo # {} /\ task.way # "receive"
  /\ LET line == Line(Min(todo)) IN
       /\ Allocate(line, TRUE)
       /\ stale' = IF iline[IPlace(line)] = line THEN stale \union {IPlace(line)} ELSE stale
  /\ todo' = todo \ {Min(todo)}
  /\ UNCHANGED << flushda, iline, task, doing, pass >>

\* What the caches have of the line is no longer what memory has.
DeviceStore ==
  /\ doing = "store" /\ todo # {} /\ task.way = "receive"
  /\ LET line == Line(Min(todo)) IN
       /\ old' = IF dline[DPlace(line)] = line THEN old \union {DPlace(line)} ELSE old
       /\ stale' = IF iline[IPlace(line)] = line THEN stale \union {IPlace(line)} ELSE stale
  /\ todo' = todo \ {Min(todo)}
  /\ UNCHANGED << flushda, dline, dirty, iline, task, doing, pass >>

Stored ==
  /\ doing = "store" /\ todo = {}
  /\ doing' = "alt_dcache_flush" /\ pass' = 0
  /\ UNCHANGED << flushda, dline, dirty, old, iline, stale, task, todo >>

\* The loop over the lines of a range; one that starts inside a line takes one
\* pass more.
\* Faulty form: it does not.
PassesAligned(start, len) == (len + LineWords - 1) \div LineWords

Passes(start, len) ==
  (len + LineWords - 1) \div LineWords + (IF start % LineWords # 0 THEN 1 ELSE 0)

\* A range longer than the cache is cut where lines are flushed by their place.
Cut(len, lines) == Min({len, lines * LineWords})
DLen == IF flushda \/ task.way = "receive" THEN task.len ELSE Cut(task.len, DLines)
ILen == Cut(task.len, ILines)

DPasses == IF task.way = "load" THEN DLines ELSE Passes(task.start, DLen)
IPasses == IF task.way = "load" THEN ILines ELSE Passes(task.start, ILen)

Flushed == Line(task.start + pass * LineWords)

\* A pass: a line goes, by address only if it is the one.
FlushLine(by_address) ==
  /\ doing = "alt_dcache_flush" /\ pass < DPasses
  /\ IF by_address /\ dline[DPlace(Flushed)] # Flushed
       THEN UNCHANGED << dline, dirty, old >>
       ELSE /\ dline' = [dline EXCEPT ![DPlace(Flushed)] = NoLine]
            /\ dirty' = dirty \ {DPlace(Flushed)}
            /\ old' = old \ {DPlace(Flushed)}
  /\ pass' = pass + 1
  /\ UNCHANGED << flushda, iline, stale, task, doing, todo >>

\* flushd or flushda: the line is written back.
DcacheFlush    == task.way \in {"code", "uncached"} /\ FlushLine(flushda)
DcacheFlushAll == task.way = "load" /\ FlushLine(FALSE)

\* initda: it is not.
DcacheFlushNoWriteback == task.way = "receive" /\ FlushLine(TRUE)

\* alt_load and the application flush the instructions next; alt_remap_uncached
\* and alt_uncached_malloc are done, and so is a device's buffer.
DcacheFlushed ==
  /\ doing = "alt_dcache_flush" /\ pass = DPasses
  /\ doing' = IF task.way \in {"uncached", "receive"} THEN "use" ELSE "alt_icache_flush"
  /\ pass' = 0
  /\ UNCHANGED << flushda, dline, dirty, old, iline, stale, task, todo >>

\* alt_icache_flush, alt_icache_flush_all: by place.
IcacheFlush ==
  /\ doing = "alt_icache_flush" /\ pass < IPasses
  /\ iline' = [iline EXCEPT ![IPlace(Flushed)] = NoLine]
  /\ stale' = stale \ {IPlace(Flushed)}
  /\ pass' = pass + 1
  /\ UNCHANGED << flushda, dline, dirty, old, task, doing, todo >>

IcacheFlushed ==
  /\ doing = "alt_icache_flush" /\ pass = IPasses
  /\ doing' = "use" /\ pass' = 0
  /\ UNCHANGED << flushda, dline, dirty, old, iline, stale, task, todo >>

\* alt_uncached_free, or other code takes its place.
Used ==
  /\ doing = "use" /\ doing' = "choose"
  /\ UNCHANGED << flushda, dline, dirty, old, iline, stale, task, todo, pass >>

CachesInit ==
  /\ flushda \in BOOLEAN
  /\ dline = [p \in 0 .. DLines - 1 |-> NoLine] /\ dirty = {} /\ old = {}
  /\ iline = [p \in 0 .. ILines - 1 |-> NoLine] /\ stale = {}
  /\ task = [way |-> "load", words |-> {}, start |-> 0, len |-> 0]
  /\ doing = "choose" /\ todo = {} /\ pass = 0

CachesNext ==
  \/ \E t \in Tasks : Choose(t)
  \/ Store \/ DeviceStore \/ Stored
  \/ DcacheFlush \/ DcacheFlushAll \/ DcacheFlushNoWriteback \/ DcacheFlushed
  \/ IcacheFlush \/ IcacheFlushed \/ Used
  \/ \E line \in 0 .. MemLines - 1 : Load(line) \/ StoreOther(line) \/ Fetch(line)

----------------------------------------------------------------------------
\* What was flushed to be executed is executed as it was stored, from the first
\* word to the last; no line inside an uncached block is left in the data cache, to
\* be written back over it; what a device stored is read as it is.  This whatever
\* the start and length, beyond the size of the caches, and with other code that is
\* fetched and data that is loaded and stored between the passes.  Known exception:
\* an uncached block that does not begin and end with a line shares its first or
\* last line with other data, and a store to that brings the line back and later
\* writes it over the block; alt_uncached_malloc.c and alt_remap_uncached.c align
\* neither.  Code and device buffers are taken to have their lines to themselves.
FreshCode ==
  doing = "use" =>
    CASE task.way = "uncached" ->
           \A p \in DOMAIN dline : dline[p] \in Lines => ~Whole(dline[p])
      [] task.way = "receive" ->
           \A w \in task.words : dline[DPlace(Line(w))] = Line(w) => DPlace(Line(w)) \notin old
      [] OTHER ->
           \A w \in task.words :
             /\ ~InDirty(Line(w))
             /\ iline[IPlace(Line(w))] = Line(w) => IPlace(Line(w)) \notin stale
=============================================================================
