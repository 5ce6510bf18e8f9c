------------------------------ MODULE MCUploads ------------------------------
(* Values for the constants of Uploads. *)
EXTENDS Uploads, TLC

SomeParts == {"x", "tar", "zst", "enc"}

x == <<"x">>

\* x is compressed to the path of x.zst; x.tar.zst, sent as it is, looks like an archive.
ThreeNames == {x, Zst(x), Zst(Tar(x))}

OneFolder == {x}

Symmetry == Permutations(Uploads)
=============================================================================
