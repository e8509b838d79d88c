------------------------------ MODULE GpuHooks ------------------------------
(***************************************************************************)
(* How the hooks of GpuAccelerator in wgpu/accelerator.rs divide a call    *)
(* into passes: what is left to the host because it is small, has the      *)
(* wrong shape or does not fit the memory budget, and what is cut into     *)
(* chunks of rows.  Sizes are in words of eight bytes.                     *)
(*                                                                         *)
(* A call is a record with its hook and the sizes of its arguments.        *)
(***************************************************************************)
EXTENDS Integers, Sequences, SequencesExt

CONSTANTS Budget,   (* vram_budget                                         *)
          Small,    (* the sizes below which a hook stays on the host      *)
          Group     (* WORKGROUP_SIZE                                      *)

ASSUME BudgetAssumption == Budget \in Nat \ {0} /\ Group \in Nat \ {0}
ASSUME SmallAssumption ==
    Small \in [ntt : Nat, fold : Nat, leaves : Nat, rows : Nat \ {0}, columns : Nat \ {0}]

\* The calls a prover can make, a call of ntt or intt with its direction.  gemv
\* takes at least Small.rows rows at once, which must fit the budget: chunk by
\* chunk it would call itself for ever.
Calls ==
    [hook : {"hash"}, rows : Nat, length : Nat, uniform : BOOLEAN]
    \cup [hook : {"ntt"}, n : Nat, inverse : BOOLEAN, width : Nat]
    \cup {c \in [hook : {"gemv"}, rows : Nat, columns : Nat, width : Nat \ {0}] :
             Small.rows * (c.columns * c.width) <= Budget}
    \cup [hook : {"fold"}, n : Nat]
    \cup [hook : {"tree"}, n : Nat]

NoKey == <<0, FALSE>>

Groups(units) == (units + Group - 1) \div Group

HostPass(out) == [kind |-> "host", key |-> NoKey, out |-> out, groups |-> 0]
OtherPass(out, units) ==
    [kind |-> "other", key |-> NoKey, out |-> out, groups |-> Groups(units)]

PowerOfTwo(n) == \E k \in 0 .. n : n = 2 ^ k

\* Variant of Chunks: what does not fill a chunk is lost.
WholeChunks(n, k) == [i \in 1 .. n \div k |-> k]

\* n rows in steps of k: step_by with the end cut to n.
Chunks(n, k) ==
    [i \in 1 .. (n + k - 1) \div k |-> IF i * k <= n THEN k ELSE n - (i - 1) * k]

\* hash_varlen_batch: c.rows rows of c.length words, a digest of five each.
HashPasses(c) ==
    LET each == c.length + 5
        chunk == IF Budget \div each < 1 THEN 1 ELSE Budget \div each
        rows == IF c.rows * each > Budget THEN Chunks(c.rows, chunk) ELSE <<c.rows>>
    IN IF c.rows = 0 \/ ~c.uniform \/ c.length = 0
       THEN <<HostPass(5 * c.rows)>>
       ELSE [i \in DOMAIN rows |-> OtherPass(5 * rows[i], rows[i])]

\* gpu_ntt_core: all layers in one command, and a layer that normalises.
NttPass(n, inverse) ==
    [kind |-> "ntt", key |-> <<n, inverse>>, out |-> n,
     groups |-> Groups(IF inverse THEN n ELSE n \div 2)]

\* ntt and intt of c.width columns of c.n words: 1, or 3 for an extension.
NttPasses(c) ==
    IF ~PowerOfTwo(c.n) \/ c.n <= 1 \/ c.n < Small.ntt \/ c.n > Budget
    THEN <<HostPass(c.width * c.n)>>
    ELSE [i \in 1 .. c.width |-> NttPass(c.n, c.inverse)]

\* gemv of a matrix of elements of c.width words, an extension element a row.
GemvPasses(c) ==
    LET each == c.columns * c.width
        chunk == IF Budget \div each < Small.rows THEN Small.rows ELSE Budget \div each
        rows == IF c.rows * each > Budget THEN Chunks(c.rows, chunk) ELSE <<c.rows>>
    IN IF c.rows < Small.rows \/ c.columns < Small.columns
       THEN <<HostPass(3 * c.rows)>>
       ELSE [i \in DOMAIN rows |-> IF rows[i] < Small.rows THEN HostPass(3 * rows[i])
                                   ELSE OtherPass(3 * rows[i], rows[i])]

\* fri_fold of a codeword of c.n extension elements.
FoldPasses(c) ==
    LET half == c.n \div 2 IN
    IF half = 0 \/ ~PowerOfTwo(c.n) \/ half < Small.fold \/ 3 * c.n + half > Budget
    THEN <<HostPass(3 * half)>>
    ELSE <<OtherPass(3 * half, half)>>

\* merkle_tree over c.n leaves: 2 n nodes of five words, level by level.
TreePasses(c) ==
    IF c.n = 0 \/ ~PowerOfTwo(c.n) \/ c.n < Small.leaves \/ 10 * c.n > Budget
    THEN <<HostPass(10 * c.n)>>
    ELSE <<OtherPass(10 * c.n, c.n \div 2)>>

HookPasses(c) ==
    CASE c.hook = "hash" -> HashPasses(c)
      [] c.hook = "ntt" -> NttPasses(c)
      [] c.hook = "gemv" -> GemvPasses(c)
      [] c.hook = "fold" -> FoldPasses(c)
      [] c.hook = "tree" -> TreePasses(c)

\* The words of the answer, by the shape of its type.
HookWords(c) ==
    CASE c.hook = "hash" -> 5 * c.rows
      [] c.hook = "ntt" -> c.width * c.n
      [] c.hook = "gemv" -> 3 * c.rows
      [] c.hook = "fold" -> 3 * (c.n \div 2)
      [] c.hook = "tree" -> 10 * c.n

=============================================================================
