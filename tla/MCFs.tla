-------------------------------- MODULE MCFs --------------------------------
(* Fs for TLC: a disk with the directories /a and /a/a, and calls on them and  *)
(* on a name b.                                                                *)
EXTENDS Fs

Rel(s) == [abs |-> FALSE, el |-> s]
Abs(s) == [abs |-> TRUE, el |-> s]
Of(do, path) == [do |-> do, path |-> path, new |-> path]

Removes ==
    {Of(do, Rel(<<"b">>)) : do \in {"creat", "mkdir", "unlink"}}
    \cup {Of("unlink", Rel(<<"a">>)), Of("unlink", Abs(<<"a", "a">>)),
          [do |-> "link", path |-> Rel(<<"b">>), new |-> Abs(<<"a", "b">>)]}

Uses ==
    {Of(do, Rel(<<"b">>)) : do \in {"creat", "open", "exec", "unlink"}}
    \cup {Of("mknod", Abs(<<"a", "b">>)), Of("openw", Rel(<<"a">>)),
          Of("chdir", Rel(<<"a", "a">>)), Of("chdir", Rel(<<"..">>))}

MCCalls == [p \in Proc |-> IF p = Initproc THEN Removes ELSE Uses]

Dir(self, parent, nlink) ==
    [type |-> "DIR", nlink |-> nlink, dir |-> [NoEntries EXCEPT !["."] = self, ![".."] = parent]]

MCImage ==
    [i \in Inum |->
        CASE i = 1 -> [Dir(1, 1, 2) EXCEPT !.dir["a"] = 2]
          [] i = 2 -> [Dir(2, 1, 2) EXCEPT !.dir["a"] = 3]
          [] i = 3 -> Dir(3, 2, 1)
          [] OTHER -> FreeInode]
=============================================================================
