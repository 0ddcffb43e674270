------------------------------ MODULE MCLaunch ------------------------------
(***************************************************************************)
(* A machine with a disk, its partition and a loop device, as the kernel   *)
(* shows them and as the tests build them, and an image file.              *)
(***************************************************************************)
EXTENDS Launch, TLC

PartOf(name, label, uuid) == [name |-> name, label |-> label, uuid |-> uuid]
OnDisk == {PartOf("sda1", "EFI", "u1"), PartOf("sda2", "Data", "u2")}
OnImage == {PartOf("", "EFI", "u3"), PartOf("", "Root", "u4")}

Dev(base) == [dir |-> "/dev", base |-> base]
Image(base) == [dir |-> ".", base |-> base]
Entries(link) ==
    {[base |-> "sda", link |-> link, marked |-> FALSE, parts |-> OnDisk],
     [base |-> "sda1", link |-> link, marked |-> TRUE, parts |-> {}],
     [base |-> "loop0", link |-> link, marked |-> TRUE, parts |-> {}]}
MCMachines ==
    {[files |-> {[path |-> Dev("sda"), parts |-> OnDisk], [path |-> Image("disk.img"), parts |-> OnImage]},
      nodes |-> Entries(link)] : link \in BOOLEAN}

MCMultiplier == ("" :> 1) @@ ("K" :> 4) @@ ("M" :> 16)
Sizes == {[number |-> n, unit |-> u] : n \in {2, 9, 200}, u \in {"", "M"}} \cup
         {[number |-> 0, unit |-> "empty"]}
Named == {<<"name", "sda1">>, <<"label", "EFI">>, <<"label", "Data">>, <<"number", "1">>}
Change(id, size) == [by |-> id[1], value |-> id[2], size |-> size]
ShellCommands ==
    {[disk |-> d, grows |-> g, shrink |-> s, cli |-> TRUE] :
        d \in {NoDisk, Dev("sda"), Image("disk.img"), Image("none")},
        g \in {<<>>} \cup {<<Change(id, size)>> : id \in Named, size \in Sizes},
        s \in {NoShrink, [by |-> "label", value |-> "Root"], [by |-> "uuid", value |-> "u4"]}}
\* Callers of the package identify partitions by UUID too.
Calls ==
    {[disk |-> d, grows |-> <<Change(<<"uuid", u>>, [number |-> 2, unit |-> ""])>>,
      shrink |-> NoShrink, cli |-> FALSE] :
        d \in {Dev("sda"), Image("disk.img")}, u \in {"u1", "u3"}}
MCCommands == ShellCommands \cup Calls
=============================================================================
