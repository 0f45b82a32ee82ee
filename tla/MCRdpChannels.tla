---------------------------- MODULE MCRdpChannels ----------------------------
(***************************************************************************)
(* Small instances of RdpChannels: two ids, up to four channels, up to     *)
(* three messages.                                                         *)
(***************************************************************************)
EXTENDS RdpChannels

Setting(names, messages, may) == [names |-> names, messages |-> messages, may |-> may]

ChannelSettings ==
  { Setting({"audio"}, 1, {"copies"}),
    Setting({"display", "audin", "other"}, 2, {"splits", "closes", "noSetup"}),
    Setting({"camEnum", "camDevice"}, 2, {"closes", "noSetup"}),
    Setting({"gfx", "geometry"}, 1, {"closes", "noSetup"}),
    Setting({"gfx", "geometry"}, 1, {"closes", "noGfx", "noSetup"}),
    Setting({"display", "other"}, 1, {"closes", "takesOver", "noSetup"}) }

\* Geometry, which is accepted beside graphics, takes an id over.
TakeOverOnly == {Setting({"display", "gfx", "geometry"}, 0, {"takesOver", "noSetup"})}

\* Display Control's id is taken over in the middle of a message.
TakeOverSplit == {Setting({"display", "other"}, 2, {"splits", "takesOver", "noSetup"})}

=============================================================================
