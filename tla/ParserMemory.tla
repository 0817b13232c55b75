---------------------------- MODULE ParserMemory ----------------------------
(***************************************************************************)
(* The memory of the intermediate representation (src/parser_ir_runtime.h: *)
(* an arena of chunks and growing arrays of pointers) and the location     *)
(* context of src/parser_ast_runtime.h, which remembers the last line it   *)
(* looked up and maps positions of a rewritten source to the original.     *)
(***************************************************************************)
EXTENDS Integers, Sequences, FiniteSets, SequencesExt

CONSTANTS
  Sizes,        \* the sizes that are allocated
  Word,         \* sizeof(void *)
  ChunkBytes,   \* the smallest chunk (4096)
  FirstCap,     \* the first capacity of an array (4)
  MaxBlocks,    \* bounds the blocks allocated
  MaxItems,     \* bounds the items pushed
  LineStarts,   \* where the lines of the original source start
  Rewrites,     \* sequences of rewrites [original_start, rewritten_start,
                \* rewritten_end, delta_after]
  Positions     \* rewritten positions that are looked up

ASSUME MemoryAssumption ==
  /\ Word \in Nat \ {0} /\ ChunkBytes \in Nat \ {0} /\ ChunkBytes % Word = 0
  /\ Sizes \subseteq Nat \ {0} /\ FirstCap \in Nat \ {0}
  /\ MaxBlocks \in Nat /\ MaxItems \in Nat

RewriteSet == [original_start : Nat, rewritten_start : Nat, rewritten_end : Nat,
               delta_after : Int]

\* The tables are searched by halving, so they are sorted; the first line starts
\* with the source, and what follows a rewrite lies in the original.
ASSUME LocationAssumption ==
  /\ LineStarts \in Seq(Nat) /\ LineStarts # <<>> /\ LineStarts[1] = 0
  /\ \A j, k \in 1..Len(LineStarts) : j < k => LineStarts[j] < LineStarts[k]
  /\ Rewrites \subseteq Seq(RewriteSet) /\ Positions \subseteq Nat
  /\ \A r \in Rewrites :
       /\ \A j, k \in 1..Len(r) : j < k => r[j].rewritten_start < r[k].rewritten_start
       /\ \A k \in 1..Len(r) : r[k].rewritten_end + r[k].delta_after >= 0

VARIABLES
  arena,    \* the chunks, first to last: [used, cap]
  blocks,   \* the blocks handed out: [chunk, start, size]
  array,    \* a pointer array: [count, cap, items]
  ctx,      \* the location context
  answers   \* the last position looked up and the line found, or <<>>

memoryVars == <<arena, blocks, array, ctx, answers>>

NoArray == [count |-> 0, cap |-> 0, items |-> <<>>]

MemoryInit ==
  /\ arena = <<>> /\ blocks = <<>> /\ array = NoArray /\ answers = <<>>
  /\ \E r \in Rewrites :
       ctx = [rewrites |-> r, has_last |-> FALSE, last_pos |-> 0, last_line |-> 0]

-----------------------------------------------------------------------------
(* Arena and arrays *)

Aligned(n) == ((n + Word - 1) \div Word) * Word

\* A chunk is doubled until the block fits.
doubling(size) == LET cap[c \in Nat] == IF c < size THEN cap[2 * c] ELSE c IN cap
ChunkFor(size) == doubling(size)[ChunkBytes]

UsedAligned == IF arena = <<>> THEN 0 ELSE Aligned(Last(arena).used)

\* Only the last chunk is looked at; what is left of the others stays unused.
arena_alloc_zero(size) ==
  /\ Len(blocks) < MaxBlocks
  /\ LET fits  == arena # <<>> /\ UsedAligned + size <= Last(arena).cap
         start == IF fits THEN UsedAligned ELSE 0
         all   == IF fits THEN arena
                  ELSE Append(arena, [used |-> 0, cap |-> ChunkFor(size)])
     IN  /\ arena' = [all EXCEPT ![Len(all)].used = start + size]
         /\ blocks' = Append(blocks, [chunk |-> Len(all), start |-> start, size |-> size])
  /\ UNCHANGED <<array, ctx, answers>>

arena_free ==
  /\ arena # <<>>
  /\ arena' = <<>> /\ blocks' = <<>>
  /\ UNCHANGED <<array, ctx, answers>>

\* The memory of an array is a function on the slots it has; a slot that was
\* never written holds 0.
Renew(items, cap) ==
  [k \in 1..cap |-> IF k <= Len(items) THEN items[k] ELSE 0]

Grow(a) == a.count = a.cap

ptr_array_push(item) ==
  /\ array.count < MaxItems
  /\ LET cap  == IF Grow(array)
                 THEN (IF array.cap > 0 THEN array.cap * 2 ELSE FirstCap) ELSE array.cap
         room == Renew(array.items, cap)
     IN  array' = [count |-> array.count + 1, cap |-> cap,
                   items |-> [k \in DOMAIN room \cup {array.count + 1} |->
                                IF k = array.count + 1 THEN item ELSE room[k]]]
  /\ UNCHANGED <<arena, blocks, ctx, answers>>

ptr_array_free ==
  /\ array # NoArray
  /\ array' = NoArray
  /\ UNCHANGED <<arena, blocks, ctx, answers>>

-----------------------------------------------------------------------------
(* Locations *)

\* The last entry of a sorted sequence that is not past x, by halving; none if
\* there is no such entry.
Window(low, high, match) == [low |-> low, high |-> high, match |-> match]
Windows(s) == [low : 1..Len(s) + 1, high : 0..Len(s), match : 0..Len(s)]
Middle(w) == w.low + ((w.high - w.low) \div 2)
Halved(s, x, w) ==
  IF s[Middle(w)] <= x THEN Window(Middle(w) + 1, w.high, Middle(w))
  ELSE Window(w.low, Middle(w) - 1, w.match)

halving(s, x) ==
  LET from[w \in Windows(s)] ==
        IF w.low > w.high THEN w.match ELSE from[Halved(s, x, w)]
  IN  from
search(s, x, none) == halving(s, x)[Window(1, Len(s), none)]

original_pos_from_rewritten_pos(rewrites, pos) ==
  LET starts == [k \in DOMAIN rewrites |-> rewrites[k].rewritten_start]
      match  == search(starts, pos, 0)
  IN  IF match = 0 THEN pos
      ELSE IF pos < rewrites[match].rewritten_end THEN rewrites[match].original_start
      ELSE pos + rewrites[match].delta_after

\* The lines from a start on, as far as the position goes.
Reaches(line, pos) == line + 1 <= Len(LineStarts) /\ LineStarts[line + 1] <= pos
scanning(pos) ==
  LET from[line \in 1..Len(LineStarts)] ==
        IF Reaches(line, pos) THEN from[line + 1] ELSE line
  IN  from
scan(line, pos) == scanning(pos)[line]

OnLastLine(pos) ==
  /\ ctx.has_last /\ pos >= LineStarts[ctx.last_line]
  /\ ctx.last_line = Len(LineStarts) \/ pos < LineStarts[ctx.last_line + 1]

\* Mutant: the lines after the last answer, for a position before it too.
LineOfForwards(pos) ==
  IF OnLastLine(pos) THEN ctx.last_line
  ELSE IF ctx.has_last THEN scan(ctx.last_line, pos)
  ELSE search(LineStarts, pos, 1)

\* First the line of the last answer, then the lines after it, else a search.
LineOf(pos) ==
  IF OnLastLine(pos) THEN ctx.last_line
  ELSE IF ctx.has_last /\ pos >= ctx.last_pos THEN scan(ctx.last_line, pos)
  ELSE search(LineStarts, pos, 1)

loc_from_rewritten_pos(rewritten) ==
  LET pos == original_pos_from_rewritten_pos(ctx.rewrites, rewritten)
  IN  /\ ctx' = [ctx EXCEPT !.has_last = TRUE, !.last_pos = pos, !.last_line = LineOf(pos)]
      /\ answers' = <<rewritten, LineOf(pos), pos - LineStarts[LineOf(pos)] + 1>>
      /\ UNCHANGED <<arena, blocks, array>>

loc_context_destroy ==
  /\ ctx.has_last \/ ctx.rewrites # <<>>
  /\ \E r \in Rewrites :
       ctx' = [rewrites |-> r, has_last |-> FALSE, last_pos |-> 0, last_line |-> 0]
  /\ answers' = <<>>
  /\ UNCHANGED <<arena, blocks, array>>

-----------------------------------------------------------------------------
\* Pushed items are numbered.
MemoryNext ==
  \/ (\E size \in Sizes : arena_alloc_zero(size)) \/ arena_free
  \/ ptr_array_push(array.count + 1) \/ ptr_array_free
  \/ (\E pos \in Positions : loc_from_rewritten_pos(pos)) \/ loc_context_destroy

MemorySpec == MemoryInit /\ [][MemoryNext]_memoryVars

-----------------------------------------------------------------------------
(* What its memory promises *)

\* Blocks are aligned, inside their chunk and apart from each other
\* (gql_ir_arena_alloc_zero).
BlocksAreApart ==
  \A k \in DOMAIN blocks :
    LET b == blocks[k]
    IN  /\ b.start % Word = 0 /\ b.start + b.size <= arena[b.chunk].cap
        /\ \A j \in 1..k - 1 :
             blocks[j].chunk = b.chunk => blocks[j].start + blocks[j].size <= b.start

\* An array keeps what was pushed and is never written past its memory
\* (gql_ir_ptr_array_push).
ArrayKeepsItsItems ==
  /\ DOMAIN array.items = 1..array.cap
  /\ array.count <= array.cap
  /\ \A k \in 1..array.count : array.items[k] = k

\* Whatever was looked up before, a rewritten position is found on the line its
\* original is on (gql_parser_loc_from_rewritten_pos).
LinesAreFoundAfresh ==
  answers # <<>> =>
    LET pos   == answers[1]
        past  == {r \in ToSet(ctx.rewrites) : r.rewritten_start <= pos}
        last  == CHOOSE r \in past : \A q \in past : q.rewritten_start <= r.rewritten_start
        orig  == IF past = {} THEN pos
                 ELSE IF pos < last.rewritten_end THEN last.original_start
                 ELSE pos + last.delta_after
        lines == {k \in DOMAIN LineStarts : LineStarts[k] <= orig}
    IN  /\ answers[2] = Cardinality(lines)
        /\ answers[3] = orig - LineStarts[Cardinality(lines)] + 1

\* The memory of the representation: blocks apart, arrays within their bounds, and
\* lines that do not depend on the line remembered (gql_ir_arena_alloc_zero,
\* gql_ir_ptr_array_push, gql_parser_loc_from_rewritten_pos).
MemoryIsAccounted == BlocksAreApart /\ ArrayKeepsItsItems /\ LinesAreFoundAfresh

=============================================================================
