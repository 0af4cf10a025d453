---- MODULE MCOpenPart ----
(* One handle of one device, with a file system of two kinds or with other data. *)
EXTENDS OpenPart

CONSTANT d1

Devices == {d1}
Formats == {"f2fs", "vfat"}

\* Within the device and over its end.
Ranges == {<<1, 2>>, <<2, 2>>}
====
