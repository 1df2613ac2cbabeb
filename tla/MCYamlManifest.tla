--------------------------- MODULE MCYamlManifest ---------------------------
(***************************************************************************)
(* A small instance of YamlManifest: two objects in two files with a blank *)
(* document between them, one of the two only, no file, and a bad document *)
(* in the last file.                                                       *)
(***************************************************************************)
EXTENDS YamlManifest

CONSTANTS ns, crd

MCObjects == {ns, crd}

MCManifests ==
    { << <<ns, Blank>>, <<crd>> >>, << <<Blank>>, <<ns>> >>, <<>>, << <<ns>>, <<crd, Malformed>> >> }
=============================================================================
