---------------------------- MODULE MCRefreshBank ----------------------------
(* Instances of RefreshBank for TLC: the configurations of per-bank refresh.*)
EXTENDS RefreshBank, TLC

Setting(e, r, w, l, f, i) ==
    [enh |-> e, req |-> r, weight |-> w, level |-> l, frcst |-> f, idle |-> i]

(* Plain mode, a refresh is forced as soon as it is owed, or never, and    *)
(* enhanced mode.                                                          *)
Modes == {Setting(FALSE, 0, 0, 1, 0, TRUE), Setting(FALSE, 1, 1, 2, 2, FALSE),
          Setting(TRUE, 0, 1, 1, 0, FALSE)}

(* Plain mode in which a refresh is forced once one pair is refreshed.     *)
Forcing == {Setting(FALSE, 1, 1, 2, 1, FALSE)}

(* Requests for two rows of bank 0 and for one of bank 1.                  *)
Some == {<<0, 1>>, <<0, 2>>, <<1, 1>>}
Two  == {<<0, 1>>, <<1, 1>>}

Symmetry == Permutations(Tasks)
=============================================================================
