-------------------------------- MODULE MCTd --------------------------------
(* Machines, computers, targets and releases for the target discovery       *)
(* library.                                                                 *)
EXTENDS LibTd

Line(d, s, k, dirty) == [dev |-> d, sub |-> s, kind |-> k, dirty |-> dirty]
Sys(tag, fs, known, readable, lines, lacks, zones) ==
  [tag |-> tag, fs |-> fs, known |-> known, readable |-> readable, vfstab |-> lines, lacks |-> lacks, zones |-> zones]
Root(lines, lacks, zones) == Sys("root", "ufs", TRUE, TRUE, lines, lacks, zones)
Ufs(d, s) == Line(d, s, "ufs", FALSE)
Swap0 == Line("w0", "/", "swap", FALSE)
(* Everything in the wrong order; a system with /var and a dirty /usr; one  *)
(* whose vfstab is broken, and one with a directory that is never there.   *)
Reversed == <<Ufs("d1", "/"), Line("w2", "/usr/kvm", "swapfile", FALSE), Ufs("d4", "/usr/kvm/a"), Ufs("d3", "/usr/kvm"),
              Ufs("d2", "/usr"), Line("w1", "/", "swap", FALSE)>>
WithVar  == <<Ufs("v1", "/var"), Swap0, Line("d5", "/usr", "ufs", TRUE), Line("n", "/usr", "net", FALSE)>>
Dirty    == <<Line("d6", "/usr/kvm", "ufs", TRUE)>>
Broken   == <<Swap0, Line("x", "/", "short", FALSE)>>
Orphan   == <<Ufs("d7", "/usr/kvm"), Swap0>>
Machine(sl, info, mo) == [slices |-> sl, info |-> info, mounts |-> mo, swaps |-> {"w0"}]
Running(s) == {[dev |-> s, base |-> "live", sub |-> "/"]}
NoVfstab(tag) == Sys(tag, "ufs", TRUE, FALSE, <<>>, {}, FALSE)
MCMachines ==
  {Machine(<<"a", "b", "c", "d">>,
           [a |-> Root(Reversed, {}, TRUE), b |-> Root(WithVar, {"usr_pkgs"}, FALSE),
            c |-> Sys("other", "ufs", TRUE, TRUE, WithVar, {}, FALSE), d |-> NoVfstab("other")],
           Running("b") \cup {[dev |-> "v1", base |-> "live", sub |-> "/var"]})}
  \cup {Machine(<<"a", "b", "c">>,
          [a |-> Root(WithVar, l, FALSE), b |-> Sys("other", "ufs", TRUE, TRUE, Orphan, l, TRUE),
           c |-> Sys("root", "zfs", k, TRUE, <<>>, {}, FALSE)], {}) :
          l \in {{}, {"metacluster"}, {"inst_release", "too_old"}}, k \in BOOLEAN}
  \cup {Machine(<<"a", "b", "c", "d">>,
          [a |-> NoVfstab("root"), b |-> Sys("data", "ufs", TRUE, TRUE, <<Swap0>>, {}, FALSE), c |-> Sys("other", "ufs", TRUE, TRUE, Broken, {}, TRUE),
           d |-> Sys("other", "ufs", TRUE, TRUE, <<Ufs("v1", "/var")>> \o Dirty, {}, FALSE)], {})}
Drive(n, k) ==
  [name |-> n, kind |-> k, alias |-> TRUE, opens |-> TRUE, path |-> TRUE, media |-> FALSE, answers |-> TRUE, loaded |-> TRUE,
   vendor |-> "acme", label |-> {"VTOC"}]
Part(d) == [name |-> d \o <<LetterP, 1>>, of |-> d, answers |-> TRUE, opens |-> TRUE, signed |-> TRUE, sunixos |-> TRUE]
Slc(d, os) == [name |-> d \o <<LetterS, 0>>, of |-> d, answers |-> TRUE, usedBy |-> <<"mount", "vfstab">>, os |-> os]
Boot(n) == [name |-> n, dsk |-> TRUE, opens |-> TRUE, cdrom |-> FALSE]
MCComputers ==
  {[drives |-> <<Drive(<<2>>, "disk"), [Drive(<<1>>, "disk") EXCEPT !.vendor = "other"],
                 [Drive(<<4>>, "disk") EXCEPT !.media = TRUE]>>,
    parts |-> <<Part(<<1>>)>>, slices |-> <<Slc(<<2>>, FALSE), Slc(<<1>>, TRUE), Slc(<<4>>, FALSE)>>,
    boot |-> <<[Boot(<<3>>) EXCEPT !.cdrom = TRUE], Boot(<<1, LetterS, 0>>)>>, booted |-> <<1>>],
   [drives |-> <<Drive(<<3>>, "cdrom"), Drive(<<5>>, "floppy")>>, parts |-> <<>>, slices |-> <<>>, boot |-> <<>>, booted |-> <<>>]}
MCLong ==
  {[drives |-> <<Drive(<<1>>, "disk"), Drive(<<1, 0>>, "disk"), Drive(<<1, 1>>, "disk")>>, parts |-> <<>>,
    slices |-> <<Slc(<<1>>, TRUE)>>, boot |-> <<>>, booted |-> <<>>]}

MCAsked == {[name |-> "t", ip |-> "here", port |-> p, lun |-> l] : p \in {0, 1}, l \in {0, 1}}
Releases == {<<Solaris, Num(<<i>> \o r)>> : i \in 1 .. 2, r \in {<<>>, <<0>>, <<1>>, <<0, 0>>, <<0, 2>>}}
Tails == {<<Num(<<1>>)>>, <<Num(<<1, 0>>)>>, <<Alpha(1)>>, <<Alpha(2)>>, <<Alpha(1), Alpha(2)>>, <<Alpha(1), Alpha(2), Num(<<1>>)>>,
          <<Num(<<1>>), Alpha(1)>>, <<Alpha(1), Num(<<1>>)>>}
MCProducts == Releases \cup {r \o t : r \in {<<Solaris, Num(<<1>>)>>, <<Solaris, Num(<<2>>)>>}, t \in Tails} \cup {<<Solaris>>, <<Alpha(1), Num(<<1>>)>>}
=============================================================================
