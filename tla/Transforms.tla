----------------------------- MODULE Transforms ------------------------------
(***************************************************************************)
(* The in-place transforms of the CPU and GPU backends: radix-2 networks   *)
(* for the transform on a subgroup, stages that pass between values and    *)
(* coefficients in one variable each, and tables of products over the      *)
(* hypercube that double with every variable.  Buffers are flat: matrices  *)
(* column after column, each padded_height long.                           *)
(***************************************************************************)
EXTENDS Polynomials

CONSTANTS LogWarp,  \* log2 of the lanes of a warp (5)
          TileLog   \* log2 of the elements of a tile in shared memory (12)

ASSUME TransformAssumption == LogWarp \in Nat /\ TileLog \in Nat \ {0}

rev_len(i, bits) == SumTo(bits, LAMBDA j : Bit(i, j) * 2 ^ (bits - 1 - j))
bit_rev(v) == Array(Size(v), LAMBDA i : v[rev_len(i, Log2(Size(v)))])

(* One stage of a network: partners differ in one bit.                      *)
Butterfly(v, len, Low(_, _), High(_, _)) ==
  Array(Size(v), LAMBDA i : IF (i \div len) % 2 = 0 THEN Low(i, i + len) ELSE High(i - len, i))

-----------------------------------------------------------------------------
(* CPU: decimation in frequency, then in time, with the twiddles of a       *)
(* layer computed beforehand.                                               *)

DftTwiddles(log_n) ==
  LET omega == two_adic_generator(log_n)
  IN  [idft_tw |-> [layer \in 0 .. log_n - 1 |->
         Array(2 ^ (log_n - layer - 1), LAMBDA j : Pow(Pow(Recip(omega), 2 ^ layer), j))],
       dft_tw |-> [layer \in 0 .. log_n - 1 |->
         Array(2 ^ layer, LAMBDA j : Pow(Pow(omega, 2 ^ (log_n - 1 - layer)), j))],
       n_inv |-> Recip(2 ^ log_n % P), log_n |-> log_n]

idft_inplace(tw, buf) ==
  LET Layer(layer, v) ==
        LET half == 2 ^ (tw.log_n - layer - 1)
        IN  Butterfly(v, half, LAMBDA i, h : (v[i] + v[h]) % P,
                      LAMBDA i, h : ((v[i] - v[h]) * tw.idft_tw[layer][i % half]) % P)
      rev == bit_rev(Iterate(tw.log_n, buf, Layer))
  IN  Array(Size(buf), LAMBDA i : rev[i] * tw.n_inv % P)

dft_inplace(tw, buf) ==
  LET Layer(layer, v) ==
        LET half == 2 ^ layer
            Scaled(h) == v[h] * tw.dft_tw[layer][h % half]
        IN  Butterfly(v, half, LAMBDA i, h : (v[i] + Scaled(h)) % P,
                      LAMBDA i, h : (v[i] - Scaled(h)) % P)
  IN  Iterate(tw.log_n, bit_rev(buf), Layer)

coset_dft_inplace(tw, buf, shift) ==
  dft_inplace(tw, Array(Size(buf), LAMBDA i : buf[i] * Pow(shift, i) % P))

-----------------------------------------------------------------------------
(* GPU.  The table of twiddles holds a segment for each level; a thread     *)
(* squares its twiddle from level to level.  Between warps the thread of    *)
(* the lower element computes both, inside a warp each computes its own, so *)
(* that the sign of the difference comes from the twiddle.                  *)

DEVICE_NTT_TWIDDLES(tid) ==
  LET level == CHOOSE l \in 1 .. TwoAdicity : 2 ^ l - 2 <= tid /\ tid < 2 ^ (l + 1) - 2
  IN  Pow(two_adic_generator(level), tid - (2 ^ level - 2))

get_twiddle(level, index) == DEVICE_NTT_TWIDDLES((2 ^ level - 2) + index)

ntt_natural_to_bitrev(intt, buf, l_skip) ==
  LET n == 2 ^ l_skip
      Semi(x) == IF intt THEN Half(x % P) ELSE x % P
      Twiddle(i, log_len) ==
        Pow(get_twiddle(l_skip, IF intt /\ i # 0 THEN n - i ELSE i), 2 ^ (l_skip - 1 - log_len))
      Level(k, v) ==
        LET log_len == l_skip - 1 - k
            shmem == l_skip > LogWarp /\ log_len >= LogWarp
        IN  Butterfly(v, 2 ^ log_len, LAMBDA i, h : Semi(v[i] + v[h]),
              LAMBDA i, h : IF shmem THEN (Semi(v[i] - v[h]) * Twiddle(i, log_len)) % P
                            ELSE (Semi(v[h] - v[i]) * Twiddle(h, log_len)) % P)
  IN  Iterate(l_skip, buf, Level)

(* Natural order on both sides: the result is stored at the reversed index. *)
batch_ntt_small(buffer, l_skip, is_intt) ==
  LET len == 2 ^ l_skip
      out == Array(Size(buffer) \div len, LAMBDA b :
               bit_rev(ntt_natural_to_bitrev(is_intt, Chunk(buffer, b, len), l_skip)))
  IN  IF l_skip = 0 THEN buffer ELSE Array(Size(buffer), LAMBDA i : out[i \div len][i % len])

(* The large transform takes every column in bit-reversed order.            *)
batch_ntt(buffer, log_height, width) ==
  LET h == 2 ^ log_height
      out == Array(width, LAMBDA c : dft(bit_rev(Chunk(buffer, c, h)), log_height))
  IN  Array(Size(buffer), LAMBDA i : out[i \div h][i % h])

-----------------------------------------------------------------------------
(* GPU: sums over subsets of the bits, or their inverse, on the first       *)
(* padded_height >> log_stride rows of every column.                        *)

Combine(is_eval_to_coeff, high, low) ==
  IF is_eval_to_coeff THEN (high - low) % P ELSE (high + low) % P

mle_interpolate_fused_2d(buffer, padded_height, log_stride, start_step, num_stages, is_eval_to_coeff) ==
  LET Lane(i) == i % padded_height
      Stage(stage, v) ==
        LET step == start_step * 2 ^ stage
        IN  Array(Size(buffer), LAMBDA i :
              IF Lane(i) < padded_height \div 2 ^ log_stride /\ (Lane(i) \div step) % 2 = 1
              THEN Combine(is_eval_to_coeff, v[i], v[i - step]) ELSE v[i])
  IN  Iterate(num_stages, buffer, Stage)

(* Tile by tile; the rest of a last tile is zero and not written back.      *)
mle_interpolate_shared_2d(buffer, padded_height, log_stride, start_log_step, end_log_step, is_eval_to_coeff) ==
  LET count == padded_height \div 2 ^ log_stride
      tile_size == 2 ^ TileLog
      Load(col, tile) == Array(tile_size, LAMBDA i :
        LET logical == (tile * tile_size) + i
        IN  IF logical < count THEN buffer[(col * padded_height) + logical] ELSE 0)
      Stage(k, v, tile) ==
        LET step == 2 ^ (start_log_step + k)
        IN  Array(tile_size, LAMBDA i :
              IF (i \div step) % 2 = 1 /\ (tile * tile_size) + i < count
              THEN Combine(is_eval_to_coeff, v[i], v[i - step]) ELSE v[i])
      Tile(col, tile) == Iterate(end_log_step + 1 - start_log_step, Load(col, tile),
                                 LAMBDA k, v : Stage(k, v, tile))
      out == Array(Size(buffer) \div padded_height, LAMBDA col :
               Array((count + tile_size - 1) \div tile_size, LAMBDA tile : Tile(col, tile)))
  IN  Array(Size(buffer), LAMBDA i :
        LET row == i % padded_height
        IN  IF row < count THEN out[i \div padded_height][row \div tile_size][row % tile_size]
            ELSE buffer[i])

mle_interpolate_stage_2d(buffer, height, padded_height, step, is_eval_to_coeff) ==
  LET Second(t) == ((t \div step) * 2 * step) + (t % step) + step
      seconds == {Second(t) : t \in 0 .. (height \div 2) - 1}
  IN  Array(Size(buffer), LAMBDA i :
        IF i % padded_height \in seconds THEN Combine(is_eval_to_coeff, buffer[i], buffer[i - step])
        ELSE buffer[i])

(* Steps inside a warp are fused when there are two of them at least, then  *)
(* those inside a tile, and the rest is launched one by one.                *)
mle_interpolate_stages(buffer, padded_height, log_blowup, start_log_step, end_log_step, is_eval_to_coeff) ==
  LET Least(a, b) == IF a <= b THEN a ELSE b
      warp_end == Least(end_log_step, LogWarp - 1)
      fused == start_log_step < LogWarp /\ warp_end - start_log_step + 1 >= 2
      v1 == IF fused THEN mle_interpolate_fused_2d(buffer, padded_height, log_blowup, 2 ^ start_log_step,
                            warp_end - start_log_step + 1, is_eval_to_coeff) ELSE buffer
      log1 == IF fused THEN warp_end + 1 ELSE start_log_step
      shared == log1 <= end_log_step /\ log1 < TileLog
      shared_end == Least(end_log_step, TileLog - 1)
      v2 == IF shared THEN mle_interpolate_shared_2d(v1, padded_height, log_blowup, log1, shared_end,
                             is_eval_to_coeff) ELSE v1
      log2 == IF shared THEN shared_end + 1 ELSE log1
  IN  Iterate(IF log2 > end_log_step THEN 0 ELSE end_log_step + 1 - log2, v2, LAMBDA k, v :
        mle_interpolate_stage_2d(v, padded_height \div 2 ^ log_blowup, padded_height,
                                 2 ^ (log2 + k), is_eval_to_coeff))

-----------------------------------------------------------------------------
(* GPU: tables that double with each variable, the new half behind the old. *)

hypercube_stage(v, x, Low(_), High(_)) ==
  Array(2 * Size(v), LAMBDA i :
    LET old == v[i % Size(v)] IN IF i < Size(v) THEN (old * Low(x)) % P ELSE (old * High(x)) % P)

gpu_evals_eq_hypercube(xs) ==
  Iterate(Len(xs), Array(1, LAMBDA i : 1), LAMBDA k, v :
    hypercube_stage(v, xs[k + 1], LAMBDA x : 1 - x, LAMBDA x : x))

(* The tables of all prefixes of x in one buffer, that of length n at 2^n.  *)
EqEvalSegments(x) ==
  Iterate(Len(x), Array(2, LAMBDA i : i), LAMBDA k, buffer :
    LET step == 2 ^ k
        eq == Array(step, LAMBDA i : buffer[step + i])
        next == hypercube_stage(eq, x[k + 1], LAMBDA t : 1 - t, LAMBDA t : t)
    IN  Array(4 * step, LAMBDA i : IF i < 2 * step THEN buffer[i] ELSE next[i - 2 * step]))

=============================================================================
