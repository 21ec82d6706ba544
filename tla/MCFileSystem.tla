---------------------------- MODULE MCFileSystem ----------------------------
EXTENDS FileSystem

MCFlags == {{}, {"WRONLY"}, {"WRONLY", "TRUNC"}, {"WRONLY", "CREATE"}}

MCBufs == {<<4, 7>>, <<3>>}
=============================================================================
