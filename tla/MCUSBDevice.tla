---- MODULE MCUSBDevice ----
(* Two configurations, the wanted one with two interfaces. *)
EXTENDS USBDevice

MCInterfacesOf == <<{0}, {0, 1}>>
====
