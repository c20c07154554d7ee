----------------------------- MODULE MC_FileTable -----------------------------
(* The pool of descriptors for TLC.                                          *)
EXTENDS FileTable, TLC

CONSTANTS null, uart, eth, zip

(* The terminal, a second device with an open of its own, and a file system  *)
(* whose mount point is a prefix of that device's name.                      *)
MCDevices == {null, uart, eth}
MCFsList == <<zip>>
MCNameOf == null :> <<"dev", "null">> @@ uart :> <<"dev", "uart">>
              @@ eth :> <<"zip", "eth">> @@ zip :> <<"zip">>
MCNames == {<<"dev", "uart">>, <<"zip", "eth">>, <<"zip", "file">>, <<"dev", "lost">>}
MCStdName == 0 :> <<"dev", "uart">> @@ 1 :> <<"zip", "eth">> @@ 2 :> <<"dev", "lost">>
MCFunctions == null :> {"write"} @@ uart :> {"close", "read", "write", "ioctl"}
                 @@ eth :> {"open", "read", "write"} @@ zip :> {"open", "read", "lseek", "fstat"}
=============================================================================
