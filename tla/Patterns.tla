------------------------------ MODULE Patterns ------------------------------
(***************************************************************************)
(* Periodic patterns and the mining configuration (mining_config.py): how  *)
(* a list of rows or columns becomes three (stride, length) pairs, six     *)
(* bytes on the wire and a list again; and the grid of candidates they     *)
(* span on a matrix, as candidate_search.py enumerates it and as the       *)
(* Vulkan and coopmat searches number it.                                  *)
(***************************************************************************)
EXTENDS Integers, SequencesExt

CONSTANTS
  ByteMod,    \* values of one wire byte (256 in the code)
  NumDims     \* PERIODIC_PATTERN_NUM_DIMS (3)

ASSUME PatternsAssumption == ByteMod \in Nat \ {0} /\ NumDims \in Nat \ {0}

-----------------------------------------------------------------------------
(***************************************************************************)
(* PeriodicPattern.  A list is a sequence, a shape a sequence of pairs.    *)
(***************************************************************************)

\* The lengths after which the first n entries of p repeat themselves.
Periods(p, n) ==
  {d \in 1..n - 1 : n % d = 0 /\ \A i \in 1..n - d : p[i] + p[d + 1] = p[i + d]}

Shortest(p, n) == CHOOSE d \in Periods(p, n) : \A e \in Periods(p, n) : d <= e

\* `while len(p) > 1': the list is cut to its shortest period, again and again;
\* what is left is always its first n entries.  <<dims>> holds the dimensions
\* of these, innermost first; <<>> stands for the ValueError of a list that is
\* not periodic.
Factored(p) ==
  LET shape[n \in 1..Len(p)] ==
        IF n = 1 THEN << <<>> >>
        ELSE IF Periods(p, n) = {} THEN <<>>
        ELSE LET d == Shortest(p, n)
                 inner == shape[d]
             IN IF inner = <<>> THEN <<>> ELSE <<Append(inner[1], <<p[d + 1], n \div d>>)>>
  IN shape[Len(p)]

Increasing(p) == \A i \in 1..Len(p) - 1 : p[i] < p[i + 1]

\* from_list refuses a list with ValueError.
RefusesList(p) == p = <<>> \/ ~Increasing(p) \/ p[1] # 0 \/ Factored(p) = <<>>

\* The innermost dimension first, padded to NumDims with (period, 1).  A list
\* of more dimensions is not refused and keeps them all.
from_list(p) ==
  LET shape == Factored(p)[1]
      period == IF shape = <<>> THEN 1 ELSE Last(shape)[1] * Last(shape)[2]
  IN shape \o [i \in 1..NumDims - Len(shape) |-> <<period, 1>>]

to_list(shape) ==
  LET list[i \in 0..Len(shape)] ==
        IF i = 0 THEN <<0>>
        ELSE LET res == list[i - 1]
             IN FlattenSeq([x \in 1..shape[i][2] |->
                              [j \in 1..Len(res) |-> res[j] + (x - 1) * shape[i][1]]])
  IN list[Len(shape)]

\* min_stride in front of dimension i.
MinStride(shape, i) == IF i = 1 THEN 1 ELSE shape[i - 1][1] * shape[i - 1][2]

Factor(shape, i) == shape[i][1] \div MinStride(shape, i)

\* to_bytes raises: a stride below min_stride, or a fourth dimension.
RefusesShape(shape) == Len(shape) > NumDims \/ \E i \in 1..Len(shape) : Factor(shape, i) = 0

\* Fault: lengths are not counted from one.
to_bytes_length(shape) ==
  [i \in 1..Len(shape) |-> <<(Factor(shape, i) - 1) % ByteMod, shape[i][2] % ByteMod>>]

\* `& 0xFF': factor and length are cut to a byte, and a stride that is not a
\* multiple of min_stride is rounded down.
to_bytes(shape) ==
  [i \in 1..Len(shape) |-> <<(Factor(shape, i) - 1) % ByteMod, (shape[i][2] - 1) % ByteMod>>]

\* from_bytes refuses bytes that are not canonical: after a length of 1 only
\* (1, 1) may follow, and that length's own factor is 1.
RefusesBytes(b) ==
  \E i \in 1..Len(b) :
    /\ \E j \in 1..i : b[j][2] = 0
    /\ b[i] # <<0, 0>>

from_bytes(b) ==
  LET shape[i \in 0..Len(b)] ==
        IF i = 0 THEN <<>>
        ELSE LET inner == shape[i - 1]
             IN Append(inner, <<(1 + b[i][1]) * MinStride(inner, i), 1 + b[i][2]>>)
  IN shape[Len(b)]

size(shape) ==
  LET lengths[i \in 0..Len(shape)] == IF i = 0 THEN 1 ELSE lengths[i - 1] * shape[i][2]
  IN lengths[Len(shape)]

period(shape) == Last(shape)[1] * Last(shape)[2]

indices_with_offset(shape, o) ==
  LET l == to_list(shape) IN [i \in 1..Len(l) |-> l[i] + o]

-----------------------------------------------------------------------------
(***************************************************************************)
(* MiningConfiguration and the job key.                                    *)
(***************************************************************************)
ConfigToBytes(mc) ==
  <<mc.common_dim, mc.rank, mc.mma_type>>
  \o FlattenSeq(to_bytes(mc.rows_pattern)) \o FlattenSeq(to_bytes(mc.cols_pattern))

ConfigFromBytes(b) ==
  LET pairs(at) == [i \in 1..NumDims |-> <<b[at + 2 * i - 2], b[at + 2 * i - 1]>>]
  IN [common_dim |-> b[1], rank |-> b[2], mma_type |-> b[3],
      rows_pattern |-> from_bytes(pairs(4)),
      cols_pattern |-> from_bytes(pairs(4 + 2 * NumDims))]

\* blake3 of the header and the configuration's bytes.
compute_job_key(header, mc) == <<"job_key", header, ConfigToBytes(mc)>>

-----------------------------------------------------------------------------
(***************************************************************************)
(* The candidate grid of one axis.                                         *)
(***************************************************************************)

\* The dimensions that are not trivial.
RealDims(shape) == {i \in 1..Len(shape) : shape[i][2] > 1}

\* The innermost of them, as <<modulus, window>>.
axis_constraint(shape) ==
  LET i == CHOOSE i \in RealDims(shape) : \A j \in RealDims(shape) : i <= j
  IN IF RealDims(shape) = {} THEN <<1, 1>> ELSE <<shape[i][1] * shape[i][2], shape[i][1]>>

\* Fault: the offset may take the pattern's last index out of the matrix.
OffsetLimitLoose(shape, axisLen) == axisLen - Last(to_list(shape)) + 1

\* Exclusive: every index the pattern touches stays inside the axis.
OffsetLimit(shape, axisLen) == axisLen - Last(to_list(shape))

\* Windows of valid offsets at the multiples of the modulus, in order.
enumerate_valid_offsets(shape, axisLen) ==
  LET upper == OffsetLimit(shape, axisLen)
      windows == IF upper <= 0 THEN 0 ELSE (upper - 1) \div axis_constraint(shape)[1] + 1
      window(w) == LET base == (w - 1) * axis_constraint(shape)[1]
                       left == upper - base
                   IN [d \in 1..(IF axis_constraint(shape)[2] < left
                                   THEN axis_constraint(shape)[2] ELSE left) |-> base + d - 1]
  IN FlattenSeq([w \in 1..windows |-> window(w)])

\* The coopmat search numbers its candidates by (band, block) of one pattern
\* period each; bands and blocks that are not whole are left out.
coopmat_offsets(shape, axisLen) ==
  LET per == axis_constraint(shape)[1]
      win == axis_constraint(shape)[2]
  IN [i \in 1..(axisLen \div per) * win |-> ((i - 1) \div win) * per + ((i - 1) % win)]
=============================================================================
