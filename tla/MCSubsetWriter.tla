---------------------------- MODULE MCSubsetWriter ----------------------------
(* Two calls over two sources and two destinations.                        *)
EXTENDS SubsetWriter

MCByte == {"s", "t", "d", "new"} \X (1 .. 3)

Tensor(n, t, b, lo, hi) == [name |-> n, dtype |-> t, bytes |-> b, lo |-> lo, hi |-> hi]
File(tag, meta, n) ==
    [legible |-> TRUE, head |-> 1, meta |-> meta, data |-> [k \in 1 .. n |-> <<tag, k>>]]

(* The first source: two tensors in the order of their names and not, one  *)
(* of them empty; a gap before, between and after them; an overlap; data   *)
(* that are too short; a range that is not what the shape gives; a tensor  *)
(* named twice; no tensor; no legible header.                              *)
Source(x, y, n) == File("s", <<Tensor(1, "BF16", 1, x[1], x[2]), Tensor(3, "BF16", y[2] - y[1], y[1], y[2])>>, n)
Sources ==
    {Source(<<0, 1>>, <<1, 2>>, 2), Source(<<1, 2>>, <<0, 1>>, 2), Source(<<0, 1>>, <<1, 1>>, 1),
     Source(<<1, 2>>, <<2, 3>>, 3), Source(<<0, 1>>, <<2, 3>>, 3), Source(<<0, 1>>, <<1, 2>>, 3),
     Source(<<0, 1>>, <<0, 2>>, 2), Source(<<0, 1>>, <<1, 2>>, 1), File("s", <<>>, 0),
     File("s", <<Tensor(3, "BF16", 2, 0, 1)>>, 1),
     File("s", <<Tensor(1, "BF16", 1, 0, 1), Tensor(1, "BF16", 1, 1, 2)>>, 2),
     [File("s", <<>>, 0) EXCEPT !.legible = FALSE]}
Second == File("t", <<Tensor(2, "BF16", 2, 0, 2), Tensor(4, "F32", 1, 2, 3)>>, 3)
MCDisks ==
    {"s" :> s @@ "t" :> Second @@ "d" :> Missing @@ "e" :> Missing : s \in Sources}
    \union {"s" :> Source(<<0, 1>>, <<1, 2>>, 2) @@ "t" :> Second
             @@ "d" :> File("d", <<>>, 0) @@ "e" :> Missing}

(* The first source may be removed, replaced by a file with a longer       *)
(* header, or by one that is shorter than its header says.                 *)
MCLater ==
    "s" :> {Missing,
            [File("new", <<Tensor(1, "BF16", 1, 0, 1), Tensor(3, "BF16", 1, 1, 2)>>, 2) EXCEPT !.head = 2],
            File("new", <<Tensor(1, "BF16", 1, 0, 1), Tensor(3, "BF16", 1, 1, 2)>>, 1)}
    @@ "t" :> {} @@ "d" :> {} @@ "e" :> {}

Of(n) == [name |-> n, path |-> IF n \in {1, 3} THEN "s" ELSE "t"]
Ask(names, to) == [entries |-> [i \in DOMAIN names |-> Of(names[i])], to |-> to]

(* Nothing; a tensor twice; of the wrong type; a destination that is a    *)
(* source; the same in two orders, to one place and to two.                *)
MCRequests == {Ask(<<>>, "e"), Ask(<<2, 2>>, "e"), Ask(<<4>>, "e"),
               Ask(<<1>>, "s"), Ask(<<2, 3>>, "d"), Ask(<<3, 2>>, "d"), Ask(<<3, 2>>, "e")}
================================================================================
