------------------------------- MODULE MCFileTable -------------------------------
(***************************************************************************)
(* FileTable with a console, a second character device and a file system   *)
(* whose open may fail, and a pool with room for three open files.         *)
(***************************************************************************)
EXTENDS FileTable

CONSTANTS null, uart, lcd, disk, none

MCRegistered == << disk, uart, lcd >>
MCName == [d \in {null, uart, lcd, disk} |->
             IF d = disk THEN << disk >> ELSE << "dev", d >>]
MCDriver == [d \in {null, uart, lcd, disk} |->
               CASE d = null -> {"write"}
                 [] d = uart -> {"close", "read", "write", "ioctl"}
                 [] d = lcd  -> {}
                 [] d = disk -> {"open", "read", "write", "lseek", "fstat"}]
MCStreams == << << "dev", uart >>, << disk, "in" >>, << "other" >> >>
MCPaths == { << "dev", lcd >>, << disk, "file" >>, << "other" >> }
MCOpenFlags == { {"read"}, {"write", "nonblock", "excl"} }
MCSetFlags == { {"excl"} }
=============================================================================
