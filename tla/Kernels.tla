------------------------------- MODULE Kernels -------------------------------
(***************************************************************************)
(* The vector and matrix kernels of src/simd.rs.  A vector kernel handles  *)
(* chunks of as many elements as a register holds and the remainder one by *)
(* one; which kernel runs depends on what the processor has and on the     *)
(* length.  Elements are integers: the rounding of floating point, and so  *)
(* the order of a sum, is not modelled.  Indices count from 1.             *)
(***************************************************************************)
EXTENDS Integers, Sequences, FiniteSetsExt

CONSTANTS TILE_SIZE    \* 32

ASSUME TileAssumption == TILE_SIZE \in Nat \ {0}

\* SimdCapabilities, as the set of the features detected.
X86Features == {"sse41", "sse42", "avx", "avx2", "fma", "avx512f", "avx512vl"}

\* What detect can return: neon on aarch64, and on x86_64 features of which the
\* wider ones come with the narrower ones.
Detectable(caps) ==
    \/ caps = {"neon"}
    \/ /\ caps \subseteq X86Features
       /\ "avx512f" \in caps => "avx2" \in caps
       /\ "avx2" \in caps => "avx" \in caps
       /\ "avx" \in caps => "sse42" \in caps
       /\ "sse42" \in caps => "sse41" \in caps

best_vector_width(caps) ==
    IF "avx512f" \in caps THEN 512
    ELSE IF caps \cap {"avx2", "avx"} # {} THEN 256
    ELSE IF caps \cap {"sse42", "sse41", "neon"} # {} THEN 128
    ELSE 64

best_f32_width(caps) == best_vector_width(caps) \div 32
best_f64_width(caps) == best_vector_width(caps) \div 64

has_simd(caps) == caps \cap {"sse41", "neon"} # {}
-----------------------------------------------------------------------------
(* The kernels by the number w of lanes; the scalar ones have one. *)

InChunks(w, n) == {i * w + lane : i \in 0 .. (n \div w) - 1, lane \in 1 .. w}

\* Fault: one element of the remainder is forgotten.
InRemainderShort(w, n) == (n \div w) * w + 2 .. n

InRemainder(w, n) == (n \div w) * w + 1 .. n

\* The elements of the output slice that a kernel writes.
Written(w, n) == InChunks(w, n) \cup InRemainder(w, n)

\* The kernel a method chooses: the first of its table <<feature, lanes>> that
\* the processor has and the slice can fill.
Lanes(table, caps, n) ==
    LET fits == {i \in DOMAIN table : table[i][1] \in caps /\ n >= table[i][2]} IN
    IF fits = {} THEN 1 ELSE table[Min(fits)][2]

AddF32 == <<<<"avx512f", 16>>, <<"avx2", 8>>, <<"sse42", 4>>, <<"neon", 4>>>>
AddF64 == <<<<"avx512f", 8>>, <<"avx2", 4>>>>
MulF32 == <<<<"avx512f", 16>>, <<"avx2", 8>>>>
DotF32 == <<<<"avx2", 8>>>>

vadd_f32(caps, a, b, c) ==
    LET computed == Written(Lanes(AddF32, caps, Len(a)), Len(a)) IN
    [i \in 1 .. Len(c) |-> IF i \in computed THEN a[i] + b[i] ELSE c[i]]

vadd_f64(caps, a, b, c) ==
    LET computed == Written(Lanes(AddF64, caps, Len(a)), Len(a)) IN
    [i \in 1 .. Len(c) |-> IF i \in computed THEN a[i] + b[i] ELSE c[i]]

vmul_f32(caps, a, b, c) ==
    LET computed == Written(Lanes(MulF32, caps, Len(a)), Len(a)) IN
    [i \in 1 .. Len(c) |-> IF i \in computed THEN a[i] * b[i] ELSE c[i]]

dot_f32_scalar(a, b) == MapThenSumSet(LAMBDA i : a[i] * b[i], DOMAIN a)

\* Eight accumulators, added pairwise by halves, and the remainder.
dot_f32_avx2(a, b) ==
    LET n == Len(a)
        sum(lane) == MapThenSumSet(LAMBDA i : a[i * 8 + lane] * b[i * 8 + lane], 0 .. (n \div 8) - 1)
        sum128(lane) == sum(lane) + sum(lane + 4)
        sum64(lane) == sum128(lane) + sum128(lane + 2)
        sum32 == sum64(1) + sum64(2)
    IN  sum32 + MapThenSumSet(LAMBDA i : a[i] * b[i], InRemainder(8, n))

dot_f32(caps, a, b) ==
    IF Lanes(DotF32, caps, Len(a)) = 8 THEN dot_f32_avx2(a, b) ELSE dot_f32_scalar(a, b)
-----------------------------------------------------------------------------
(* Matrices, row by row in a sequence; rows and columns count from 0. *)

\* Fault: the last element of a tile is left to the next one.
TileOfShort(from, n) == from .. Min({from + TILE_SIZE, n}) - 2

TileOf(from, n) == from .. Min({from + TILE_SIZE, n}) - 1

Tiles(n) == {x \in 0 .. n - 1 : x % TILE_SIZE = 0}

\* c[i * n + j] gathers a product in each tile that has i, j and kk.
matmul_f32(a, b, m, k, n) ==
    LET visits == {<<i0, j0, k0>> \in Tiles(m) \X Tiles(n) \X Tiles(k) : TRUE}
        cell(i, j) ==
            MapThenSumSet(
                LAMBDA v : IF i \in TileOf(v[1], m) /\ j \in TileOf(v[2], n)
                           THEN MapThenSumSet(LAMBDA kk : a[i * k + kk + 1] * b[kk * n + j + 1],
                                              TileOf(v[3], k))
                           ELSE 0,
                visits)
    IN  [p \in 1 .. m * n |-> cell((p - 1) \div n, (p - 1) % n)]

\* dst[j * rows + i] = src[i * cols + j]
transpose_f32(src, rows, cols) ==
    [p \in 1 .. rows * cols |-> src[((p - 1) % rows) * cols + ((p - 1) \div rows) + 1]]
-----------------------------------------------------------------------------
(* Properties of one input *)

\* Whatever kernel is chosen, every element is computed, none twice and none
\* beyond the slice, and the chosen register is one the processor has.
VectorKernels(caps, n) ==
    LET a == [i \in 1 .. n |-> i]
        b == [i \in 1 .. n |-> 100 + i]
        c == [i \in 1 .. n |-> -1]
        p == [i \in 1 .. n |-> 2 ^ (i - 1)]
        one == [i \in 1 .. n |-> 1] IN
    /\ \A w \in {Lanes(table, caps, n) : table \in {AddF32, AddF64, MulF32, DotF32}} :
          /\ InChunks(w, n) \cup InRemainder(w, n) = 1 .. n
          /\ InChunks(w, n) \cap InRemainder(w, n) = {}
    /\ vadd_f32(caps, a, b, c) = [i \in 1 .. n |-> a[i] + b[i]]
    /\ vadd_f64(caps, a, b, c) = [i \in 1 .. n |-> a[i] + b[i]]
    /\ vmul_f32(caps, a, b, c) = [i \in 1 .. n |-> a[i] * b[i]]
    /\ dot_f32(caps, p, one) = (2 ^ n) - 1
    /\ Detectable(caps) =>
          /\ \A table \in {AddF32, MulF32, DotF32} :
                Lanes(table, caps, n) > 1 => Lanes(table, caps, n) <= best_f32_width(caps) /\ has_simd(caps)
          /\ Lanes(AddF64, caps, n) <= best_f64_width(caps)

\* The tiled product is the product, for matrices that are no multiple of the
\* tile too, and transposing twice gives the matrix back.
MatrixKernels(m, k, n) ==
    LET a == [p \in 1 .. m * k |-> p]
        b == [p \in 1 .. k * n |-> p * p]
        entry(x, cols, i, j) == x[i * cols + j + 1] IN
    /\ matmul_f32(a, b, m, k, n) =
          [p \in 1 .. m * n |->
              MapThenSumSet(LAMBDA kk : entry(a, k, (p - 1) \div n, kk) * entry(b, n, kk, (p - 1) % n),
                            0 .. k - 1)]
    /\ \A i \in 0 .. m - 1, j \in 0 .. k - 1 :
          entry(transpose_f32(a, m, k), m, j, i) = entry(a, k, i, j)
    /\ transpose_f32(transpose_f32(a, m, k), k, m) = a

=============================================================================
