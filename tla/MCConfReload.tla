---------------------------- MODULE MCConfReload ----------------------------
(* Files for ConfReload: each complete, not there at all, or cut in places   *)
(* that leave a key without its value or an entry of a list without its key. *)
EXTENDS ConfReload

MCMangle(s) ==
    CASE s = "storage_time" -> "storage-time" [] s = "disk_left" -> "disk-left" [] OTHER -> s

S(key, val) == [key |-> key, kind |-> "scalar", val |-> val]
M(key, val) == [key |-> key, kind |-> "map", val |-> val]
L(key, val) == [key |-> key, kind |-> "list", val |-> val]

Entry(id, mac, ip, port) == << <<"id", id>>, <<"mac", mac>>, <<"ip", ip>>, <<"port", port>> >>

Cdr(ip, port) == M("cdr", << <<"ip", ip>>, <<"vpuport", port>> >>)

Svm1 == << Cdr("A", "1"), L("vpu", << Entry("1", "m", "A", "1") >>) >>
Svm2 == << Cdr("B", "2"), L("vpu", << Entry("2", "m", "B", "2"), Entry("1", "m", "B", "0") >>) >>
Svm3 == << L("vpu", << Entry("1", "x", "B", "2") >>) >>

Vpu1 == << S("id", "2"), S("dev", "eth1"), S("storage-time", "30"), S("disk-left", "1025") >>
Vpu2 == << S("id", "1"), S("dev", "eth0"), S("storage_time", "1025") >>

Dms1 == << M("ma", << <<"sguardport", "2">>, <<"maport", "2">> >>) >>

File(name, doc, cuts) == {[name |-> name, doc |-> doc, cut |-> n] : n \in cuts \cup {Len(Events(doc))}}

MCFiles ==
    File("svm.yaml", Svm1, {0, 5}) \cup File("svm.yaml", Svm2, {12, 18}) \cup File("svm.yaml", Svm3, {})
        \cup File("vpu.yaml", Vpu1, {9}) \cup File("vpu.yaml", Vpu2, {})
        \cup File("dms.yaml", Dms1, {})

MCFirstAddr == [c \in Clients |-> [ip |-> "A", port |-> 1]]
=============================================================================
