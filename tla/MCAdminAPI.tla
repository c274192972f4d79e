----------------------------- MODULE MCAdminAPI -----------------------------
EXTENDS AdminListing, TLC
EditorsAlike == Permutations(Editors)
MCFiles == {[dir |-> <<"posts">>, name |-> "a", lang |-> ""],
            [dir |-> <<"posts", "2026", "05">>, name |-> "a", lang |-> "en"]}
MCExisting == {[dir |-> <<"posts">>, name |-> "a", lang |-> ""]}
MCMedia == {[dir |-> <<"img">>, name |-> "logo", lang |-> ""]}
=============================================================================
