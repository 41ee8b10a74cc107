----------------------------- MODULE MCLxdialog -----------------------------
(* Texts of up to five characters that end with a newline.                    *)
EXTENDS Lxdialog

MCText ==
  {t \o <<"\n">> : t \in UNION {[1 .. n -> {"\n", "x"}] : n \in 0 .. 4}}
=============================================================================
