--------------------------- MODULE GoCommandLines ---------------------------
(* Command lines of the Go mdzip on small files, for GoMdz.tla.            *)
EXTENDS Integers, Sequences

\* An excerpt of the registry: every way a key is treated, and signatures without one.
Registry ==
  << <<"add32", 4>>, <<"aes8", 8>>, <<"ax", 16>>, <<"blake2s_128", 16>>, <<"hw64", 8>>, <<"md5", 16>>,
     <<"sip64", 8>>, <<"wy", 8>> >>

File(es) == [b \in DOMAIN es |-> [id |-> <<"a", "b", "c">>[b], exp |-> es[b]]]
Binary(digits) == [csv |-> FALSE, items |-> digits]
Csv(tokens) == [csv |-> TRUE, items |-> tokens]
Key(name, length) == [name |-> name, key |-> [id |-> "given", len |-> length]]

Mdzip ==
  [keylist |-> <<>>, fh |-> Csv(<<<<6>>>>), bh |-> Csv(<<<<1>>>>), uh |-> <<>>, blocksize |-> 12, modsize |-> 32,
   filesize |-> 20, data |-> File(<<90, 60>>), val |-> TRUE, list |-> FALSE]

\* Lists in each of their forms, with none, with numbers above the registry.
Lists ==
  {Mdzip, [Mdzip EXCEPT !.list = TRUE], [Mdzip EXCEPT !.uh = <<1, 0, 2, 3>>],
   [Mdzip EXCEPT !.fh = Csv(<<<<0>>, <<7, 20>>, <<1>>>>), !.bh = Binary(<<0, 1, 0, 0, 0, 1, 0, 0, 1>>)],
   [Mdzip EXCEPT !.fh = Binary(<<0>>), !.val = FALSE], [Mdzip EXCEPT !.fh = Binary(<<0>>)],
   [Mdzip EXCEPT !.bh = Csv(<<<<5, 2>>>>)], [Mdzip EXCEPT !.bh = Csv(<<<<0, 2>>>>), !.modsize = 33]}

\* Keys of every length that matters, an entry twice, an unknown name.
Keys ==
  {[Mdzip EXCEPT !.fh = Csv(<<<<n>>>>), !.bh = Csv(<<<<n>>>>), !.keylist = list] :
     n \in {5, 7},
     list \in {<<Key("hw64", l), Key("sip64", k)>> : l \in {1, 10, 64, 70}, k \in {1, 10, 32, 40}}
              \cup {<<Key("hw64", 10), Key("met64", 5), Key("hw64", 70), Key("sip64", 31), Key("sip64", 33)>>}}
  \cup {[Mdzip EXCEPT !.fh = Csv(<<<<6>>>>), !.bh = Csv(<<<<3, 4>>>>), !.keylist = <<Key("ax1", 6), Key("blake2s_128", l)>>] :
     l \in {8, 16, 33}}

\* Files shorter than a block, of whole blocks, of none; blocks either side of 32 bytes;
\* no modulus, no block size.
Sizes ==
  {[Mdzip EXCEPT !.filesize = 5, !.data = File(<<39>>)], [Mdzip EXCEPT !.filesize = 24, !.data = File(<<95, 0>>)],
   [Mdzip EXCEPT !.filesize = 0, !.data = <<>>], [Mdzip EXCEPT !.modsize = 0],
   [Mdzip EXCEPT !.blocksize = 0, !.data = File(<<90>>)],
   [Mdzip EXCEPT !.blocksize = 32, !.filesize = 64, !.data = File(<<255, 200>>)],
   [Mdzip EXCEPT !.blocksize = 40, !.filesize = 20, !.data = File(<<150>>)],
   [Mdzip EXCEPT !.blocksize = 40, !.filesize = 64, !.data = File(<<319, 150>>)],
   [Mdzip EXCEPT !.blocksize = 40, !.filesize = 64, !.data = File(<<319, 150>>), !.list = TRUE]}

CommandLines == Lists \cup Keys \cup Sizes
=============================================================================
