--------------------------- MODULE MCStageStorage ----------------------------
EXTENDS StageStorage

\* Disks without an ESP, with one on every volume, and on the output only.
MCLayouts == {{}, Volumes, {"output"}}

\* A probe of a mapping and one of a loop device.
MCProbed == {<<"output", "root">>, <<"output", "loop">>}
=============================================================================
