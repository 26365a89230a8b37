---------------------------- MODULE MCStorePersist ----------------------------
(* Instances of StorePersist for TLC. *)
EXTENDS StorePersist

Order == <<"appShell", "memory", "io">>
Keys  == <<1, 2>>
Ones  == [s \in Settings |-> 1]

With(id, s, v) == [id |-> id, folded |-> FALSE, config |-> [NoConfig EXCEPT ![s] = v]]

(* A record of this release, reordered, with a file that is gone; and one  *)
(* of an older release: a section that is no more, one that is missing, a  *)
(* byte out of range and a theme that no release knows.                    *)
Current == [sections |-> <<With("io", "splitIo", 0), With("appShell", "view", Unset),
                           With("memory", "memInit", 1)>>,
            fileOrder |-> <<2, 1>>, theme |-> "dark", flush |-> 1]
Older   == [sections |-> <<With("notes", "view", 1), With("memory", "memInit", Unset + 1)>>,
            fileOrder |-> <<>>, theme |-> "sepia", flush |-> 0]
Records == {Current, Older}

OneFile == {[NoFiles EXCEPT ![1] = [id |-> 1, autoload |-> TRUE]]}
Lists   == {<<[id |-> "b", kind |-> "unknown", enabled |-> TRUE]>>}
=============================================================================
