----------------------------- MODULE ReedSolomon -----------------------------
(***************************************************************************)
(* The Reed-Solomon codes of IL2P over GF(256): init_rs_char (fec_init.c),  *)
(* encode_rs_char (fec_encode.c), decode_rs_char (fec_extract.c) without    *)
(* erasures, of which IL2P reports none, and il2p_encode_rs and             *)
(* il2p_decode_rs (il2p_init.c), which pad a short block with zeros.        *)
(*                                                                          *)
(* Symbols are 0 .. 255.  Polynomials are functions on 0 .. n; the code     *)
(* keeps some of them by the logarithms of their coefficients, which makes  *)
(* no difference and is left out.  fcr is 0 and prim is 1, as in Tab.       *)
(***************************************************************************)
EXTENDS Octets, FiniteSetsExt

NN == 255     \* symbols in a codeword
gfpoly == 285

-----------------------------------------------------------------------------
\* One step of sr: shifted, and reduced by gfpoly.
Shifted ==
  [sr \in 1 .. NN |-> IF sr < 128 THEN 2 * sr ELSE Xor((2 * sr) % 256, gfpoly % 256)]

\* sr after 0, 1 .. NN - 1 steps.  TLC gets there by doubling: from sr after the
\* first n steps, and what n steps make of every sr, to the first 2n.
\* Of 0 there is no logarithm; A0 stands for it in the code.
ALPHA_TO ==
  LET Twice(acc, n) ==
        [sr |-> acc.sr \o [j \in DOMAIN acc.sr |-> acc.steps[acc.sr[j]]],
         steps |-> Evaluated([x \in 1 .. NN |-> acc.steps[acc.steps[x]]])]
  IN  SubSeq(Fold(Twice, [sr |-> <<1>>, steps |-> Shifted], [k \in 1 .. 8 |-> 2^(k - 1)]).sr, 1, NN)
INDEX_OF ==
  LET alpha == ALPHA_TO
  IN  Evaluated([x \in 1 .. NN |-> CHOOSE i \in 0 .. NN - 1 : alpha[i + 1] = x])

\* x times alpha to the k, the product and the quotient of two symbols.
Raised(x, k) == IF x = 0 THEN 0 ELSE ALPHA_TO[((INDEX_OF[x] + k) % NN) + 1]
Product(x, y) == IF y = 0 THEN 0 ELSE Raised(x, INDEX_OF[y])
Quotient(x, y) == Raised(x, NN - INDEX_OF[y])

\* Polynomials: the sum and x times p, with no more coefficients than p has;
\* the value at alpha to the k, and the degree.
Plus(p, q) == Evaluated([j \in DOMAIN p |-> Xor(p[j], q[j])])
TimesX(p) == <<0>> \o Front(p)
Scaled(p, x) == Evaluated([j \in DOMAIN p |-> Product(p[j], x)])
Value(p, k) == XorAll([j \in DOMAIN p |-> Raised(p[j], (j - 1) * k)])
Degree(p) == Max({j - 1 : j \in {i \in DOMAIN p : p[i] # 0}})

\* The generator polynomial, one root after the other: g times (x + root).
init_rs_char(nroots) ==
  LET Times(g, root) == Plus(<<0>> \o g, Scaled(g, Raised(1, root)) \o <<0>>)
  IN  Fold(Times, <<1>>, [i \in 1 .. nroots |-> i - 1])

\* Tab of il2p_init.c: the numbers of parity symbols there are codecs for.
Tab == [nroots \in {2, 4, 6, 8, 16} |-> init_rs_char(nroots)]

-----------------------------------------------------------------------------
\* The parity symbols, the register that divides by the generator polynomial.
encode_rs_char(nroots, data) ==
  LET genpoly == Reverse(Front(Tab[nroots]))
      Divide(bb, d) == Plus(Tail(bb) \o <<0>>, Scaled(genpoly, Xor(d, bb[1])))
  IN  Fold(Divide, [j \in 1 .. nroots |-> 0], data)

\* The codeword at the roots of the generator polynomial.
Syndromes(nroots, data) ==
  Evaluated([i \in 1 .. nroots |-> Value(Reverse(data), i - 1)])

\* Berlekamp-Massey: the polynomial whose roots tell where the errors are.
Lambda(nroots, s) ==
  LET One == [i \in 1 .. nroots + 1 |-> IF i = 1 THEN 1 ELSE 0]
      Step(acc, r) ==
        LET discr_r == XorAll([i \in 1 .. r |-> Product(acc.lambda[i], s[r - i + 1])])
            xb == TimesX(acc.b)
            t == Plus(acc.lambda, Scaled(xb, discr_r))
        IN  CASE discr_r = 0 -> [acc EXCEPT !.b = xb]
              [] discr_r # 0 /\ 2 * acc.el <= r - 1 ->
                   [lambda |-> t, el |-> r - acc.el, b |-> Scaled(acc.lambda, Quotient(1, discr_r))]
              [] OTHER -> [acc EXCEPT !.lambda = t, !.b = xb]
  IN  Fold(Step, [lambda |-> One, b |-> One, el |-> 0], [r \in 1 .. nroots |-> r]).lambda

\* Forney: what to add at the place that a root of lambda stands for.
Derivative(lambda) == Evaluated([j \in 1 .. Len(lambda) - 1 |-> (j % 2) * lambda[j + 1]])
Omega(s, lambda) ==
  Evaluated([j \in DOMAIN s |-> XorAll([i \in 1 .. j |-> Product(s[j - i + 1], lambda[i])])])
ErrorValue(omega, lambda, root) ==
  Quotient(Raised(Value(omega, root), NN - root), Value(Derivative(lambda), root))

\* Repaired at the roots of lambda.  Place k of the array data is counted from its
\* end here.
Repaired(data, s, lambda, omega, roots) ==
  LET k(i) == i - (NN - Len(data))    \* the place of a root
  IN  CASE \A i \in DOMAIN s : s[i] = 0 -> [count |-> 0, loc |-> {}, data |-> data]
        [] OTHER ->
             [count |-> IF \/ Cardinality(roots) # Degree(lambda)
                           \/ \E i \in roots : Value(Derivative(lambda), i) = 0
                        THEN -1 ELSE Cardinality(roots),
              loc |-> {k(i) : i \in roots},
              data |-> [j \in DOMAIN data |->
                          IF \E i \in roots : k(i) = j
                            THEN Xor(data[j], ErrorValue(omega, lambda, j + NN - Len(data)))
                            ELSE data[j]]]

\* The roots of lambda, by the Chien search.
Roots(lambda) == {i \in 1 .. NN : Value(lambda, i) = 0}

Located(data, s, lambda) == Repaired(data, s, lambda, Omega(s, lambda), Roots(lambda))

Decode(nroots, data, s) == Located(data, s, Lambda(nroots, s))

\* How many errors there are, where, and the codeword without them, for the last
\* symbols of a codeword; a count of -1 means that it cannot be repaired, and the
\* data is of no use then.
decode_rs_char(nroots, data) == Decode(nroots, data, Syndromes(nroots, data))

-----------------------------------------------------------------------------
\* The zeros in front of a short block leave the register as it is.
il2p_encode_rs(block, nroots) == encode_rs_char(nroots, block)

\* A repair in the zeros in front of a short block is refused.
WithoutParity(rec, nroots, d) ==
  [derrors |-> IF \A k \in d.loc : k \in DOMAIN rec THEN d.count ELSE -1,
   out |-> SubSeq(d.data, 1, Len(rec) - nroots)]

il2p_decode_rs(rec, nroots) == WithoutParity(rec, nroots, decode_rs_char(nroots, rec))
=============================================================================
