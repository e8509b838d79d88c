---------------------------- MODULE MCGpuStaging ----------------------------
(***************************************************************************)
(* Two proofs at once on one accelerator.  The memory budget is 40 words,  *)
(* a workgroup handles two units, the device takes eight groups.  Calls on *)
(* both sides of every limit: small ones for the host, ones cut into       *)
(* chunks with a remainder, one dispatch too large for the device, NTTs of *)
(* different sizes and of both directions, and passes that leave larger    *)
(* buffers in the pool than the next one needs.                            *)
(***************************************************************************)
EXTENDS GpuStaging, GpuHooks

CONSTANTS t1, t2

MCSmall == [ntt |-> 4, fold |-> 2, leaves |-> 2, rows |-> 2, columns |-> 2]

Hash(rows, length) ==
    [hook |-> "hash", rows |-> rows, length |-> length, uniform |-> TRUE]
Ragged(rows) == [hook |-> "hash", rows |-> rows, length |-> 1, uniform |-> FALSE]
Ntt(n, inverse, width) == [hook |-> "ntt", n |-> n, inverse |-> inverse, width |-> width]
Gemv(rows, columns, width) ==
    [hook |-> "gemv", rows |-> rows, columns |-> columns, width |-> width]
Fold(n) == [hook |-> "fold", n |-> n]
Tree(n) == [hook |-> "tree", n |-> n]

\* What a proof calls one after the other.
Proofs ==
    {<<Ntt(8, TRUE, 1), Ntt(8, FALSE, 3)>>,
     <<Ntt(4, TRUE, 1), Tree(4), Ntt(4, FALSE, 1)>>,
     <<Hash(10, 3), Fold(8), Hash(3, 3)>>,
     <<Gemv(5, 9, 1), Ntt(16, TRUE, 1), Tree(2)>>,
     <<Ntt(32, TRUE, 1)>>,
     <<Gemv(3, 2, 3), Ragged(4), Fold(2), Ntt(2, TRUE, 3), Gemv(1, 8, 1), Tree(8)>>,
     <<Hash(14, 3), Hash(8, 0), Ntt(64, FALSE, 1)>>,
     <<Tree(2), Fold(8), Hash(3, 3), Tree(2)>>}

MCHooks == UNION {{p[i] : i \in DOMAIN p} : p \in Proofs}
ASSUME MCHooks \subseteq Calls

MCPlans == [{t1, t2} -> Proofs]

KeysOf(h) == {Passes(h)[i].key : i \in DOMAIN Passes(h)}
MCKeys == {NoKey} \cup UNION {KeysOf(h) : h \in MCHooks}

=============================================================================
