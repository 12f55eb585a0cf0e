---------------------------- MODULE SettingsFile ----------------------------
(***************************************************************************)
(* The start-up with the settings.xml it reads: Startup, whose constant    *)
(* LoadedFrom is the loader of XmlSettings here, and what must hold of the *)
(* file alone.  These properties are evaluated in the initial states, one  *)
(* for each file.                                                          *)
(***************************************************************************)
EXTENDS Startup, XmlSettings, XmlPrint

SameTree(read, node) == Loaded(read) /\ Content(read.node) = Content(node)

PrintsBack(read) ==
  Loaded(read) /\ Printable(read.node) =>
    \A out \in {Printed(read.node, 0), Accept(read.node, 0, FALSE)} :
      SameTree(LoadFile(out), read.node)

\* What TinyXML prints of a tree it has parsed, either way, is parsed as the
\* same tree: nothing that is escaped or quoted is lost or read as markup.
RoundTrip == main = "off" => PrintsBack(LoadFile(settingsXml))

RefusedOr(cut, whole) == cut.status = "loaded" => cut = whole

PrefixesRefused(xml, whole) ==
  whole.status = "loaded" =>
    \A n \in 0 .. Len(xml) - 1 : RefusedOr(LoadSettings(SubSeq(xml, 1, n)), whole)

\* A settings file that was cut short anywhere, by a full disk or an editor, is
\* not taken for a shorter configuration: either it is refused or what was cut
\* off said nothing.
TruncationRejected == main = "off" => PrefixesRefused(settingsXml, LoadSettings(settingsXml))
=============================================================================
