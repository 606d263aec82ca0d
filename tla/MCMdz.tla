------------------------------- MODULE MCMdz -------------------------------
(* Instances of Mdz: command lines of the four zippers on small files.     *)
EXTENDS Mdz

\* Up to three blocks, with exponents that fit whatever is tested; the last two have
\* one remainder.
Data(id, exp, rem) == [id |-> id, exp |-> exp, rem |-> rem, zeros |-> FALSE]
File(es) == [b \in DOMAIN es |-> Data(<<"a", "b", "c">>[b], es[b], <<3, 5, 5>>[b])]
Zeros == [id |-> "z", exp |-> 1, rem |-> 0, zeros |-> TRUE]

Mdzip ==
  [tool |-> "mdzip", fhs |-> <<>>, fh |-> <<>>, bhs |-> <<>>, bh |-> <<>>, rand |-> FALSE, inc |-> FALSE,
   dec |-> FALSE, sip48 |-> FALSE, hw48 |-> FALSE, blocksize |-> 12, modsize |-> 32, filesize |-> 20,
   data |-> File(<<90, 60>>)]

\* Every signature as the block signature and as the file signature, with and without
\* keys of its own.
EverySignature ==
  {[Mdzip EXCEPT !.bh = <<<<n>>>>, !.fh = <<<<n>>>>, !.rand = r] : n \in 1..46, r \in BOOLEAN}

\* Options: ranges, repetitions, no signature at all, one out of range; files shorter
\* than a block, of whole blocks, with equal blocks; blocks either side of 32 bytes.
Lists ==
  {Mdzip, [Mdzip EXCEPT !.bh = <<<<31, 30>>, <<30>>>>, !.fhs = <<<<16>>, <<36>>>>, !.rand = TRUE, !.inc = TRUE],
   [Mdzip EXCEPT !.bhs = <<<<2>>>>, !.bh = <<<<0, 1>>>>, !.modsize = 33], [Mdzip EXCEPT !.bh = <<<<0>>>>],
   [Mdzip EXCEPT !.bh = <<<<47>>>>]}
Sizes ==
  {[Mdzip EXCEPT !.filesize = 5, !.data = File(<<39>>)],
   [Mdzip EXCEPT !.filesize = 24, !.data = <<Data("a", 90, 3), Data("a", 90, 3)>>],
   [Mdzip EXCEPT !.blocksize = 32, !.filesize = 64, !.data = File(<<255, 256>>)],
   [Mdzip EXCEPT !.blocksize = 33, !.filesize = 64, !.data = File(<<263, 240>>)],
   [Mdzip EXCEPT !.filesize = 0, !.data = <<>>]}

\* A modulus of one, which leaves every remainder zero: blocks of zeros first, later and
\* last, and blocks of one exponent that only their digests tell apart.
Residues ==
  {[Mdzip EXCEPT !.bh = <<<<0, 1>>>>, !.modsize = 1, !.filesize = 36, !.data = data] :
     data \in {<<Zeros, Data("a", 90, 0), Zeros>>, <<Data("a", 90, 0), Zeros, Data("b", 90, 0)>>,
               <<Data("a", 90, 0), Data("b", 90, 0), Data("c", 60, 0)>>}}
  \cup {[Mdzip EXCEPT !.filesize = 24, !.data = <<Zeros, Data("a", 90, 0)>>]}

\* The keys that move, at both ends of their range.
Moving ==
  {[Mdzip EXCEPT !.tool = "mdzipsip40", !.rand = r, !.inc = (move = "inc"), !.dec = (move = "dec"),
                 !.filesize = 30, !.data = File(<<80, 70, 60>>)] :
     r \in BOOLEAN, move \in {"no", "inc", "dec"}}
Sip48 ==
  {[Mdzip EXCEPT !.bh = <<<<31>>>>, !.rand = TRUE, !.inc = (move = "inc"), !.dec = (move = "dec")] :
     move \in {"inc", "dec"}}

\* The packed exponents: every format, spreads that fall between formats, a last
\* exponent below all the others, a file of one block; and a stream that crashes the
\* zipper after a prefix long enough for the unzipper.
Packed ==
  {[Mdzip EXCEPT !.tool = "mdzipsip47", !.sip48 = (b = "sip48"), !.hw48 = (b = "hw48"), !.rand = r,
                 !.fh = <<<<15>>>>, !.inc = (b = "sip40"), !.filesize = 25, !.data = File(<<70, 75, 60>>)] :
     b \in {"sip40", "sip48", "hw48"}, r \in BOOLEAN}
  \cup {[Mdzip EXCEPT !.tool = "mdzipsip47", !.filesize = 10 * Len(es), !.data = File(es)] :
     es \in {<<79>>, <<79, 77>>, <<70, 78, 77>>, <<62, 77, 70>>, <<40, 71, 79>>, <<16, 79, 3>>, <<79, 1, 79>>}}
  \cup {[Mdzip EXCEPT !.tool = "mdzipsip47", !.rand = TRUE, !.filesize = 25, !.data = File(<<70, 78, 60>>)]}

\* The format without a header.
Bare == {[Mdzip EXCEPT !.tool = "mdzipnh", !.rand = r, !.filesize = 30, !.data = File(<<111, 100, 9>>)] : r \in BOOLEAN}
  \cup {[Mdzip EXCEPT !.tool = "mdzipnh", !.filesize = 5, !.data = File(<<39>>)]}

MCCommands == EverySignature \cup Lists \cup Sizes \cup Residues \cup Moving \cup Sip48 \cup Packed \cup Bare

Option ==
  [valmdzip |-> FALSE, list |-> FALSE, unzip |-> FALSE, val |-> TRUE, over |-> FALSE, exists |-> FALSE, threads |-> 2]
MCOptions ==
  {Option, [Option EXCEPT !.valmdzip = TRUE], [Option EXCEPT !.exists = TRUE],
   [Option EXCEPT !.list = TRUE, !.unzip = TRUE, !.threads = 1]}

MCRandomKeys == {0, 15}
=============================================================================
