-------------------------- MODULE SequenceParallel --------------------------
(***************************************************************************)
(* What h3_parallel makes of one prompt: the transformer's blocks over a   *)
(* sequence the ranks share out (ulysses.py, the hooks of patches.py), and *)
(* the video's chunks decoded by one rank each.  Every rank runs the same  *)
(* program on its own; they meet in the collectives of collectives.py,     *)
(* which match the n-th call of one rank with the n-th of every other.     *)
(*                                                                         *)
(* Ranks, rows and heads count from 1, as sequences do.  Hidden values are *)
(* symbols that say what they were computed from, and Garbage is anything  *)
(* the unpatched model would not have computed.                            *)
(*                                                                         *)
(* The ranks begin a prompt together: ComfyRanks shows when they do not.   *)
(***************************************************************************)
EXTENDS Naturals, Sequences, FiniteSets, SequencesExt

CONSTANTS
  Worlds,   \* the numbers of ranks to consider
  Heads,    \* num_attention_heads
  Layouts,  \* packed sequences: the tables [start, stop, row] of mod_segments
  Blocks,   \* num_layers
  Forwards, \* sampling steps of a prompt
  Chunks,   \* temporal chunks of a video
  Prompts,  \* how many prompts the worker is given
  None      \* Python's None

ASSUME WorldsAssumption  == Worlds \subseteq Nat \ {0, 1}
\* install refuses a model whose heads do not divide.
ASSUME HeadsAssumption   == Heads \in Nat \ {0} /\ \A w \in Worlds : Heads % w = 0
ASSUME BoundsAssumption  == {Blocks, Forwards, Chunks, Prompts} \subseteq Nat \ {0}
\* A table covers the sequence from row 0 on, in order and without a gap.
Segments == [start : Nat, stop : Nat, row : Nat]
ASSUME LayoutsAssumption ==
  \A table \in Layouts :
    /\ table \in Seq(Segments) /\ table # <<>>
    /\ \A i \in DOMAIN table :
         /\ table[i].start = (IF i = 1 THEN 0 ELSE table[i-1].stop)
         /\ table[i].stop > table[i].start

\* None is none of the values it stands beside: tokens, cells, chunks and their
\* metadata, a shard, a call.
Tokens   == Nat \X Nat \X Nat \X Nat
Cells    == Tokens \X Nat
Payloads == Seq(Tokens) \cup Seq(Cells) \cup Nat \cup (Nat \X Nat)
Shards   == [seq_lengths : Seq(Nat), start : Nat, stop : Nat, rope : Seq(Nat),
             mod_segments : SUBSET Segments]
Calls    == [op : {"all_to_all", "broadcast"}, data : Payloads, ins : Seq(Nat),
             outs : Seq(Nat), src : Nat, size : Nat]
ASSUME NoneAssumption == None \notin Payloads \cup Shards \cup Calls

VARIABLES
  world,   \* ranks in the group
  table,   \* mod_segments of the packed sequence
  split,   \* [rank -> its video VAE was patched]: install goes on when it fails
  pc,      \* [rank -> where it is]
  prompt,  \* [rank -> the prompt it runs, or ran last]
  forward, \* [rank -> sampling step of the prompt]
  block,   \* [rank -> block of the forward]
  shard,   \* [rank -> _STATE.shard]
  inBlock, \* [rank -> _STATE.in_block]
  packed,  \* [rank -> the rows it holds]
  whole,   \* [rank -> what its collectives brought so far: q, k, v or shards]
  counter, \* [rank -> _STATE.vae_chunk, None when vae_decode is False]
  video,   \* [rank -> chunks of the video decoded so far]
  call,    \* [rank -> the collective it has called]
  reply,   \* [rank -> what the collective returned]
  broken,  \* NCCL has aborted the communicator
  ended,   \* [rank -> how its last prompt ended]
  raised   \* a rank has failed on its own (history)

shardVars == <<shard, inBlock, packed>>
videoVars == <<counter, video>>
wireVars  == <<call, reply, broken>>
jobVars   == <<prompt, forward, block, ended>>
fixedVars == <<world, table, split>>
vars == <<fixedVars, pc, jobVars, shardVars, whole, videoVars, wireVars, raised>>

Garbage == <<>>

Ranks == 1..world
Total == table[Len(table)].stop
HeadsLocal == Heads \div world

-----------------------------------------------------------------------------
(* ulysses.py: the split of rows.                                          *)

Minimum(a, b) == IF a < b THEN a ELSE b
Maximum(a, b) == IF a < b THEN b ELSE a

\* sum(counts[:n])
SumOfFirst(counts, n) ==
  LET sum[k \in 0..Len(counts)] == IF k = 0 THEN 0 ELSE sum[k-1] + counts[k]
  IN sum[n]

\* The first total % world ranks take one row more.
ShardLengths(total, w) ==
  [r \in 1..w |-> total \div w + (IF r <= total % w THEN 1 ELSE 0)]
Start(lengths, r) == SumOfFirst(lengths, r - 1)

\* The segments in the coordinates of the rows from start to stop. They are
\* disjoint, so that their order in the table does not matter.
RemapSegments(segments, start, stop) ==
  LET Clipped(s) == [start |-> Maximum(s.start, start) - start,
                     stop  |-> Minimum(s.stop, stop) - start,
                     row   |-> s.row]
  IN {Clipped(s) : s \in {t \in segments : Minimum(t.stop, stop) > Maximum(t.start, start)}}

\* What modulates the i-th row of a sequence.
ModulatedBy(segments, i) ==
  {s.row : s \in {t \in segments : t.start < i /\ i <= t.stop}}

Slice(seq, start, length) == SubSeq(seq, start + 1, start + length)
\* A flat buffer as `rows` rows of `width` elements.
View(flat, rows, width) == [i \in 1..rows |-> Slice(flat, (i - 1) * width, width)]

-----------------------------------------------------------------------------
(* The values of an unpatched model.                                       *)

\* Token t after d blocks of forward f of prompt p, and a head of its q, k or v.
Row(p, f, t, d) == <<p, f, t, d>>
Hidden(p, f, d) == [t \in 1..Total |-> Row(p, f, t, d)]
Token(row)      == row[3]
Cell(row, h)    == <<row, h>>

\* Norm, modulation, qkv_proj and RoPE of one row: right if the row is
\* modulated and positioned as its token is in the whole sequence.
Project(row, position, modulation) ==
  LET right == /\ row # Garbage
               /\ position = Token(row)
               /\ modulation = ModulatedBy(ToSet(table), Token(row))
  IN [h \in 1..Heads |-> IF right THEN Cell(row, h) ELSE Garbage]

\* Unmasked attention of one head: of q, k and v columns over a sequence. It
\* sums over the keys, in any order, each with its own value.
Attend(q, k, v) ==
  LET pairs == {<<k[j], v[j]>> : j \in DOMAIN k}
      Sees(cell) == \A t \in 1..Total :
                      LET other == Cell([cell[1] EXCEPT ![3] = t], cell[2])
                      IN <<other, other>> \in pairs
  IN [i \in DOMAIN q |->
        IF q[i] # Garbage /\ Len(k) = Total /\ Sees(q[i]) THEN q[i] ELSE Garbage]

\* out_proj, gate and the feed-forward part: the next block's row.
Output(row, cells) ==
  IF row # Garbage /\ cells = [h \in 1..Heads |-> Cell(row, h)]
    THEN [row EXCEPT ![4] = @ + 1] ELSE Garbage

Chunk(p, c) == <<p, c>>
Shape(c)    == c   \* the metadata of a chunk: each may have its own shape

-----------------------------------------------------------------------------
(* ulysses.py: the two exchanges of an attention, before and after.        *)

\* [s_local, heads] -> flat, grouped by destination.
ScatterBuffer(local) ==
  FlattenSeq([dst \in Ranks |->
    FlattenSeq([i \in DOMAIN local |-> Slice(local[i], (dst - 1) * HeadsLocal, HeadsLocal)])])

\* flat, grouped by source -> [S, heads/world]
Gathered(flat, lengths) ==
  FlattenSeq([src \in Ranks |->
    View(Slice(flat, Start(lengths, src) * HeadsLocal, lengths[src] * HeadsLocal),
         lengths[src], HeadsLocal)])

\* Mutant: the source axis is not moved beside the heads.
HeadsConcatenatedUnpermuted(flat, length) == View(flat, length, Heads)

\* flat, grouped by source -> [s_local, heads]
HeadsConcatenated(flat, length) ==
  LET parts == [src \in Ranks |->
                  View(Slice(flat, (src - 1) * length * HeadsLocal, length * HeadsLocal),
                       length, HeadsLocal)]
  IN [i \in 1..length |-> FlattenSeq([src \in Ranks |-> parts[src][i]])]

-----------------------------------------------------------------------------
Init ==
  /\ world \in Worlds
  /\ table \in Layouts
  /\ split \in [Ranks -> BOOLEAN]
  /\ pc = [r \in Ranks |-> "idle"]
  /\ prompt = [r \in Ranks |-> 0]
  /\ forward = [r \in Ranks |-> 1]
  /\ block = [r \in Ranks |-> 1]
  /\ shard = [r \in Ranks |-> None]
  /\ inBlock = [r \in Ranks |-> FALSE]
  /\ packed = [r \in Ranks |-> <<>>]
  /\ whole = [r \in Ranks |-> <<>>]
  /\ counter = [r \in Ranks |-> None]
  /\ video = [r \in Ranks |-> <<>>]
  /\ call = [r \in Ranks |-> None]
  /\ reply = [r \in Ranks |-> None]
  /\ broken = FALSE
  /\ ended = [r \in Ranks |-> "none"]
  /\ raised = FALSE

Goto(r, place) == pc' = [pc EXCEPT ![r] = place]

-----------------------------------------------------------------------------
(* collectives.py                                                          *)

AllToAll(data, ins, outs) ==
  [op |-> "all_to_all", data |-> data, ins |-> ins, outs |-> outs, src |-> 0, size |-> 0]
\* What a rank that is not the source passes is overwritten.
Broadcast(data, src, size) ==
  [op |-> "broadcast", data |-> data, ins |-> <<>>, outs |-> <<>>, src |-> src, size |-> size]

Call(r, collective) ==
  /\ call' = [call EXCEPT ![r] = collective]
  /\ UNCHANGED <<reply, broken>>
Return(r) ==
  /\ reply' = [reply EXCEPT ![r] = None]
  /\ UNCHANGED <<call, broken>>

Waiting(r) == call[r] # None
Computing(r) == pc[r] # "idle" /\ ~Waiting(r)

\* Two calls NCCL can match.
Match(a, b) ==
  /\ call[a].op = call[b].op
  /\ call[a].src = call[b].src
  /\ call[a].size = call[b].size
  /\ call[a].op = "all_to_all" =>
       /\ call[a].ins[b] = call[b].outs[a]
       /\ Len(call[a].data) = SumOfFirst(call[a].ins, world)

Received(r) ==
  IF call[r].op = "broadcast" THEN call[call[r].src].data
  ELSE FlattenSeq([src \in Ranks |->
         Slice(call[src].data, SumOfFirst(call[src].ins, r - 1), call[src].ins[r])])

\* Every rank has called: the data moves and all return.
Meet ==
  /\ ~broken
  /\ \A r \in Ranks : Waiting(r)
  /\ \A a, b \in Ranks : Match(a, b)
  /\ reply' = [r \in Ranks |-> Received(r)]
  /\ call' = [r \in Ranks |-> None]
  /\ UNCHANGED <<fixedVars, raised, pc, jobVars, shardVars, whole, videoVars, broken>>

-----------------------------------------------------------------------------
(* The text embedding and the blocks.                                      *)

\* The next prompt, once the last has ended on every rank.
Begin ==
  /\ \A r \in Ranks : pc[r] = "idle" /\ prompt[r] < Prompts
  /\ pc' = [r \in Ranks |-> "refine"]
  /\ prompt' = [r \in Ranks |-> prompt[r] + 1]
  /\ forward' = [r \in Ranks |-> 1]
  /\ ended' = [r \in Ranks |-> "none"]
  /\ video' = [r \in Ranks |-> <<>>]
  /\ UNCHANGED <<fixedVars, raised, block, shardVars, whole, counter, wireVars>>

\* The forward begins: unsharded, so parallel_attention leaves the
\* TokenRefiner's attention over the text alone. Then the packed sequence.
Refine(r) ==
  /\ pc[r] = "refine"
  /\ Goto(r, "block")
  /\ block' = [block EXCEPT ![r] = 1]
  /\ shard' = [shard EXCEPT ![r] = None]
  /\ inBlock' = [inBlock EXCEPT ![r] = FALSE]
  /\ packed' = [packed EXCEPT ![r] = Hidden(prompt[r], forward[r], 0)]
  /\ UNCHANGED <<fixedVars, raised, prompt, forward, ended, whole, videoVars, wireVars>>

\* _enter_shard: the rows of this rank, with their positions and modulation.
Shard(r) ==
  LET lengths == ShardLengths(Total, world)
      start   == Start(lengths, r)
      stop    == start + lengths[r]
  IN [seq_lengths |-> lengths, start |-> start, stop |-> stop,
      rope |-> [i \in 1..lengths[r] |-> start + i],
      mod_segments |-> RemapSegments(ToSet(table), start, stop)]

\* block_patch up to the attention: block 0 shards the sequence.
EnterBlock(r) ==
  /\ pc[r] = "block"
  /\ Goto(r, "scatter")
  /\ inBlock' = [inBlock EXCEPT ![r] = TRUE]
  /\ whole' = [whole EXCEPT ![r] = <<>>]
  /\ IF block[r] = 1
       THEN /\ shard' = [shard EXCEPT ![r] = Shard(r)]
            /\ packed' = [packed EXCEPT ![r] = SubSeq(@, Shard(r).start + 1, Shard(r).stop)]
       ELSE UNCHANGED <<shard, packed>>
  /\ UNCHANGED <<fixedVars, raised, jobVars, videoVars, wireVars>>

\* parallel_attention takes over in a block of a sharded sequence only.
Sharded(r) == shard[r] # None /\ inBlock[r]

\* q, k or v of this rank's rows.
Projection(r) ==
  [i \in DOMAIN packed[r] |->
     Project(packed[r][i], shard[r].rope[i], ModulatedBy(shard[r].mod_segments, i))]

\* scatter_heads_gather_sequence of q, then k, then v.
Scatter(r) ==
  /\ pc[r] = "scatter" /\ Sharded(r) /\ ~Waiting(r) /\ reply[r] = None
  /\ LET lengths == shard[r].seq_lengths
     IN Call(r, AllToAll(ScatterBuffer(Projection(r)),
                         [dst \in Ranks |-> Len(packed[r]) * HeadsLocal],
                         [src \in Ranks |-> lengths[src] * HeadsLocal]))
  /\ UNCHANGED <<fixedVars, raised, pc, jobVars, shardVars, whole, videoVars>>

Scattered(r) ==
  /\ pc[r] = "scatter" /\ reply[r] # None
  /\ whole' = [whole EXCEPT ![r] = Append(@, Gathered(reply[r], shard[r].seq_lengths))]
  /\ Goto(r, IF Len(whole'[r]) = 3 THEN "attend" ELSE "scatter")
  /\ Return(r)
  /\ UNCHANGED <<fixedVars, raised, jobVars, shardVars, videoVars>>

\* This rank's heads over the whole sequence, [S, heads/world].
Attention(r) ==
  LET Column(tensor, h) == [i \in DOMAIN tensor |-> tensor[i][h]]
      results == [h \in 1..HeadsLocal |-> Attend(Column(whole[r][1], h),
                                                Column(whole[r][2], h), Column(whole[r][3], h))]
  IN [i \in DOMAIN whole[r][1] |-> [h \in 1..HeadsLocal |-> results[h][i]]]

\* Attention, and gather_heads_scatter_sequence of its result.
Gather(r) ==
  /\ pc[r] = "attend"
  /\ Goto(r, "gather")
  /\ LET lengths == shard[r].seq_lengths
     IN Call(r, AllToAll(FlattenSeq(Attention(r)),
                         [dst \in Ranks |-> lengths[dst] * HeadsLocal],
                         [src \in Ranks |-> lengths[r] * HeadsLocal]))
  /\ UNCHANGED <<fixedVars, raised, jobVars, shardVars, whole, videoVars>>

\* The rest of the block. The last block's hook gathers the rows, unsharded.
LeaveBlock(r) ==
  /\ pc[r] = "gather" /\ reply[r] # None
  /\ LET cells == HeadsConcatenated(reply[r], shard[r].seq_lengths[r])
     IN packed' = [packed EXCEPT ![r] = [i \in DOMAIN @ |-> Output(@[i], cells[i])]]
  /\ inBlock' = [inBlock EXCEPT ![r] = FALSE]
  /\ whole' = [whole EXCEPT ![r] = <<>>]
  /\ IF block[r] = Blocks
       THEN /\ shard' = [shard EXCEPT ![r] = None]
            /\ Goto(r, "rows")
            /\ UNCHANGED block
       ELSE /\ block' = [block EXCEPT ![r] = @ + 1]
            /\ Goto(r, "block")
            /\ UNCHANGED shard
  /\ Return(r)
  /\ UNCHANGED <<fixedVars, raised, prompt, forward, ended, videoVars>>

\* all_gather_rows: one broadcast of every rank.
GatherRows(r) ==
  /\ pc[r] = "rows" /\ ~Waiting(r) /\ reply[r] = None
  /\ LET src == Len(whole[r]) + 1
     IN Call(r, Broadcast(packed[r], src, ShardLengths(Total, world)[src]))
  /\ UNCHANGED <<fixedVars, raised, pc, jobVars, shardVars, whole, videoVars>>

\* With the last shard the forward ends (and resets the state): the next
\* step, or the decoder.
RowsGathered(r) ==
  /\ pc[r] = "rows" /\ reply[r] # None
  /\ whole' = [whole EXCEPT ![r] = Append(@, reply[r])]
  /\ IF Len(whole'[r]) < world THEN UNCHANGED <<pc, forward, packed>>
     ELSE /\ packed' = [packed EXCEPT ![r] = FlattenSeq(whole'[r])]
          /\ IF forward[r] < Forwards
               THEN /\ forward' = [forward EXCEPT ![r] = @ + 1]
                    /\ Goto(r, "refine")
               ELSE Goto(r, "decode") /\ UNCHANGED forward
  /\ Return(r)
  /\ UNCHANGED <<fixedVars, raised, prompt, block, ended, shard, inBlock, videoVars>>

-----------------------------------------------------------------------------
(* The video's chunks.                                                     *)

Finish(r, how) ==
  /\ Goto(r, "idle")
  /\ ended' = [ended EXCEPT ![r] = how]
  /\ shard' = [shard EXCEPT ![r] = None]
  /\ inBlock' = [inBlock EXCEPT ![r] = FALSE]
  /\ counter' = [counter EXCEPT ![r] = None]
  /\ whole' = [whole EXCEPT ![r] = <<>>]

\* MiniMaxH3VideoVAE.decode, bracketed if it was patched.
Decode(r) ==
  /\ pc[r] = "decode"
  /\ Goto(r, "chunk")
  /\ counter' = [counter EXCEPT ![r] = IF split[r] THEN 0 ELSE None]
  /\ UNCHANGED <<fixedVars, raised, jobVars, shardVars, whole, video, wireVars>>

Owner(index) == (index % world) + 1

\* Mutant: only the owner counts the chunk.
ShareChunkOwnerCounts(r) ==
  /\ pc[r] = "chunk" /\ Len(video[r]) < Chunks
  /\ counter[r] # None
  /\ counter' = [counter EXCEPT ![r] = IF r = Owner(@) THEN @ + 1 ELSE @]
  /\ Goto(r, "meta")
  /\ Call(r, Broadcast(IF r = Owner(counter[r]) THEN Shape(Len(video[r]) + 1) ELSE 0,
                       Owner(counter[r]), 8))
  /\ UNCHANGED <<fixedVars, raised, jobVars, shardVars, whole, video>>

\* _adaptive_decode: every rank counts the chunk, its owner decodes it and
\* says what shape it has.
ShareChunk(r) ==
  /\ pc[r] = "chunk" /\ Len(video[r]) < Chunks
  /\ counter[r] # None
  /\ counter' = [counter EXCEPT ![r] = @ + 1]
  /\ Goto(r, "meta")
  /\ Call(r, Broadcast(IF r = Owner(counter[r]) THEN Shape(Len(video[r]) + 1) ELSE 0,
                       Owner(counter[r]), 8))
  /\ UNCHANGED <<fixedVars, raised, jobVars, shardVars, whole, video>>

\* The decoded chunk, into a buffer of that shape.
ShapeKnown(r) ==
  /\ pc[r] = "meta" /\ reply[r] # None
  /\ Goto(r, "payload")
  /\ LET owner == Owner(counter[r] - 1)
     IN call' = [call EXCEPT ![r] =
          Broadcast(IF r = owner THEN Chunk(prompt[r], Len(video[r]) + 1) ELSE Garbage,
                    owner, reply[r])]
  /\ reply' = [reply EXCEPT ![r] = None]
  /\ UNCHANGED <<fixedVars, raised, jobVars, shardVars, whole, videoVars, broken>>

ChunkShared(r) ==
  /\ pc[r] = "payload" /\ reply[r] # None
  /\ Goto(r, "chunk")
  /\ video' = [video EXCEPT ![r] = Append(@, reply[r])]
  /\ Return(r)
  /\ UNCHANGED <<fixedVars, raised, jobVars, shardVars, whole, counter>>

\* Unpatched, a rank decodes every chunk itself.
DecodeChunk(r) ==
  /\ pc[r] = "chunk" /\ Len(video[r]) < Chunks
  /\ counter[r] = None
  /\ video' = [video EXCEPT ![r] = Append(@, Chunk(prompt[r], Len(@) + 1))]
  /\ UNCHANGED <<fixedVars, raised, pc, jobVars, shardVars, whole, counter, wireVars>>

VideoDecoded(r) ==
  /\ pc[r] = "chunk" /\ Len(video[r]) = Chunks
  /\ Finish(r, "ok")
  /\ UNCHANGED <<fixedVars, raised, prompt, forward, block, packed, video, wireVars>>

-----------------------------------------------------------------------------
(* Failures.                                                               *)

\* A kernel runs out of memory, or the prompt is interrupted.
Raise(r) ==
  /\ Computing(r)
  /\ Finish(r, "failed")
  /\ raised' = TRUE
  /\ reply' = [reply EXCEPT ![r] = None]
  /\ UNCHANGED <<fixedVars, prompt, forward, block, packed, video, call, broken>>

\* Mutant: a failure of the group is only noticed by the rank that fails.
CollectiveNeverFails(r) == FALSE

\* The collective times out because a rank will not come, or fails at once
\* because the communicator was aborted by an earlier timeout.
CollectiveFails(r) ==
  /\ Waiting(r)
  /\ broken \/ \E s \in Ranks : pc[s] = "idle"
  /\ Finish(r, "failed")
  /\ call' = [call EXCEPT ![r] = None]
  /\ broken' = TRUE
  /\ UNCHANGED <<fixedVars, raised, prompt, forward, block, packed, video, reply>>

Step(r) ==
  \/ Refine(r) \/ EnterBlock(r) \/ Scatter(r) \/ Scattered(r) \/ Gather(r)
  \/ LeaveBlock(r) \/ GatherRows(r) \/ RowsGathered(r) \/ Decode(r) \/ ShareChunk(r)
  \/ ShapeKnown(r) \/ ChunkShared(r) \/ DecodeChunk(r) \/ VideoDecoded(r)
  \/ CollectiveFails(r)

Next == Begin \/ Meet \/ \E r \in Ranks : Step(r) \/ Raise(r)

\* The group goes on as long as one of its ranks can: a rank computes, a
\* collective returns once every rank called it and fails once one will not.
\* Nothing forces a rank to raise, or another prompt.
Fairness == WF_vars(Meet \/ \E r \in Ranks : Step(r))
Spec == Init /\ [][Next]_vars /\ Fairness

-----------------------------------------------------------------------------
Places == {"idle", "refine", "block", "scatter", "attend", "gather", "rows",
           "decode", "chunk", "meta", "payload"}
InForward(r) == pc[r] \in {"scatter", "attend", "gather"}

\* The variables have their types; a rank inside a block holds exactly its
\* shard, and a rank whose call is pending is at a statement that calls.
TypeOK ==
  /\ world \in Worlds /\ table \in Layouts /\ split \in [Ranks -> BOOLEAN]
  /\ pc \in [Ranks -> Places]
  /\ prompt \in [Ranks -> 0..Prompts] /\ forward \in [Ranks -> 1..Forwards]
  /\ block \in [Ranks -> 1..Blocks]
  /\ inBlock \in [Ranks -> BOOLEAN]
  /\ ended \in [Ranks -> {"none", "ok", "failed"}]
  /\ broken \in BOOLEAN /\ raised \in BOOLEAN
  /\ \A r \in Ranks :
       /\ Waiting(r) => pc[r] \in {"scatter", "gather", "rows", "meta", "payload"}
       /\ ~(Waiting(r) /\ reply[r] # None)
       /\ InForward(r) <=> Sharded(r)
       /\ InForward(r) => Len(packed[r]) = shard[r].seq_lengths[r]
       /\ Len(whole[r]) <= Maximum(3, world)
       /\ counter[r] # None => counter[r] \in 0..Chunks

\* What ranks do on their own never takes them apart: when every rank waits in
\* a collective it is the same one, from the same source, with sizes that
\* agree (collectives.py: nothing checks that at run time, and a mismatch
\* hangs or corrupts). That includes a prompt after one that failed halfway.
CallsMatch ==
  ~broken /\ (\A r \in Ranks : Waiting(r)) => \A a, b \in Ranks : Match(a, b)

BlocksDone(r) == IF pc[r] = "rows" THEN Blocks ELSE block[r] - 1

\* Sharding changes nothing: between two blocks a rank holds its rows of what
\* the unpatched model computes, and after the last block all of them
\* (ulysses.py: "mathematically exact").
RowsAreExact ==
  \A r \in Ranks :
    LET expected == Hidden(prompt[r], forward[r], BlocksDone(r))
    IN /\ (pc[r] = "block" /\ block[r] > 1) \/ pc[r] = "rows" =>
            packed[r] = SubSeq(expected, Start(ShardLengths(Total, world), r) + 1,
                               Start(ShardLengths(Total, world), r + 1))
       /\ pc[r] = "decode" => packed[r] = Hidden(prompt[r], forward[r], Blocks)

\* Every rank assembles the video of this prompt, chunk by chunk in order,
\* whoever decoded them (patches.py: "the decoded video is the same video").
ChunksAreExact ==
  \A r \in Ranks : video[r] = [c \in 1..Len(video[r]) |-> Chunk(prompt[r], c)]

\* What ComfyUI computes from is, on every rank and at every layer boundary, what
\* it would compute from without the custom nodes.
ResultsAreExact == RowsAreExact /\ ChunksAreExact

\* The communicator is lost only after a rank has failed on its own, or when
\* the video VAE was patched on some ranks and not on others: no rank is left
\* in a collective by a partner that went on.
LostForACause ==
  broken => raised \/ \E a, b \in Ranks : split[a] # split[b]

\* The ranks make the same collective calls, to the last one.
CallsAgree == CallsMatch /\ LostForACause

\* A prompt ends on every rank, whichever rank failed and wherever
\* (collectives.py: "must kill the job, not wedge the worker").
PromptsEnd ==
  []<>(\A r \in Ranks : pc[r] = "idle")
=============================================================================
