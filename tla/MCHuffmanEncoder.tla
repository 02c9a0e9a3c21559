--------------------------- MODULE MCHuffmanEncoder ---------------------------
(***************************************************************************)
(* Bytes of 2 bits, so that 3 states need an array of shorts and 9 one of  *)
(* ints, and codes of 3 and 4 bits go over two borders.                    *)
(***************************************************************************)
EXTENDS HuffmanEncoder

Orders(set) == {order \in [1 .. Cardinality(set) -> set] : IsInjective(order)}

WithOrders(arrays, orders(_)) ==
  UNION {{[bins |-> b, order |-> o] : o \in orders(Range(b))} : b \in arrays}

\* Short arrays, in every order of the hash map.
Short == WithOrders(UNION {[1 .. n -> {4, 5, 7}] : n \in 1 .. 5}, Orders)

\* How often each of the states from 0 on occurs.
Array(freq) == FlattenSeq([s \in 1 .. Len(freq) |-> [i \in 1 .. freq[s] |-> s - 1]])

\* Deep, flat and wide trees, in two orders.
Upwards(set)   == [i \in 1 .. Cardinality(set) |-> i - 1]
TwoOrders(set) == {Upwards(set), Reverse(Upwards(set))}
Long == WithOrders({Array(<<1, 1, 2, 3, 5>>), Array(<<3, 1, 1, 2>>), Array(<<3, 3, 2, 2>>),
                    Array(<<1, 1, 1, 1, 1, 1>>), Array(<<5, 4, 3, 3, 2, 2, 1>>),
                    Array(<<2, 1, 1, 1, 1, 1, 1, 1, 1>>)}, TwoOrders)

AllInputs == Short \cup Long
=============================================================================
