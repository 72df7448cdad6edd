-------------------------------- MODULE Pxe --------------------------------
(***************************************************************************)
(* The directory of network boot: typed or browsed for (ui_boot.c,         *)
(* open_dialog.c), given to the HTTP server as it is (run_qemu), completed *)
(* and made absolute for QEMU's TFTP server (fix_dir_path, rel_to_abs of   *)
(* cmdline.c and ini.c).  Windows resolves what is not absolute against    *)
(* the current directory, which the file dialogs change.                   *)
(*                                                                         *)
(* A path is a drive, or Driveless, names, and backslashes at the end; ""  *)
(* is Empty.  No path begins with a backslash.  The network and HTTP are   *)
(* on.                                                                     *)
(***************************************************************************)
EXTENDS Naturals, Sequences

CONSTANTS
  Driveless,  \* no drive
  Typed,      \* the paths the user types
  Dirs,       \* directories of the disks: paths without backslashes at the end
  pwd         \* that of the program

Empty == [drive |-> Driveless, names |-> <<>>, slashes |-> 0]

is_absolute_path(p) == p.drive # Driveless

IsPath(p) == /\ p = [drive |-> p.drive, names |-> p.names, slashes |-> p.slashes]
             /\ p.slashes \in Nat

\* The program is somewhere on a drive, and directories are paths.
PxeAssumption ==
  /\ IsPath(pwd) /\ is_absolute_path(pwd) /\ pwd.slashes = 0
  /\ \A p \in Typed \cup Dirs : IsPath(p)

VARIABLES
  net_tftp,  \* nk.ini->net_tftp
  cwd,       \* the current directory of the launcher
  root,      \* the root of the HTTP server, <<path>>, or <<>> while it is stopped
  tftp       \* the directory QEMU was started with

pxeVars == <<net_tftp, cwd, root, tftp>>
---------------------------------------------------------------------------
fix_dir_path(p) ==
  IF p = Empty THEN pwd
  ELSE IF p.slashes > 0 THEN [p EXCEPT !.slashes = @ - 1]
  ELSE p

OnlyDrive(p) == IF is_absolute_path(p) THEN p ELSE [p EXCEPT !.drive = pwd.drive]

rel_to_abs(p) ==
  IF is_absolute_path(p) THEN p
  ELSE [drive |-> pwd.drive, names |-> pwd.names \o p.names, slashes |-> p.slashes]

\* Where a file is looked for that is asked for under a root: the name follows
\* a slash, so that nothing at all is the root of the drive.
Under(p) ==
  LET path(drive, names) == [drive |-> drive, names |-> names, slashes |-> 0]
  IN  CASE is_absolute_path(p) -> path(p.drive, p.names)
        [] p = Empty -> path(cwd.drive, <<>>)
        [] OTHER -> path(cwd.drive, cwd.names \o p.names)
---------------------------------------------------------------------------
TypePath ==
  /\ net_tftp' \in Typed
  /\ UNCHANGED <<cwd, root, tftp>>

\* ui_open_dir: a directory, or what there was if the dialog is cancelled,
\* without the backslash at the end.
Browse ==
  /\ net_tftp' \in Dirs \cup {IF net_tftp.slashes > 0
                               THEN [net_tftp EXCEPT !.slashes = @ - 1] ELSE net_tftp}
  /\ UNCHANGED <<cwd, root, tftp>>

\* ui_open_file and ui_save_file, of any panel: without OFN_NOCHANGEDIR.
FileDialog ==
  /\ cwd' \in Dirs
  /\ UNCHANGED <<net_tftp, root, tftp>>

\* Both buttons keep the path that append_qemu_hw has completed.
CopyPath ==
  /\ net_tftp' = fix_dir_path(net_tftp)
  /\ UNCHANGED <<cwd, root, tftp>>

StartServers ==
  /\ root = <<>>
  /\ root' = <<net_tftp>>
  /\ net_tftp' = fix_dir_path(net_tftp)
  /\ tftp' = rel_to_abs(fix_dir_path(net_tftp))
  /\ UNCHANGED cwd

StopServers ==
  /\ root # <<>>
  /\ root' = <<>>
  /\ UNCHANGED <<net_tftp, cwd, tftp>>

PxeInit == net_tftp = Empty /\ cwd \in Dirs /\ root = <<>> /\ tftp = Empty

PxeNext == TypePath \/ Browse \/ FileDialog \/ CopyPath \/ StartServers \/ StopServers

PxeSpec == PxeInit /\ [][PxeNext]_pxeVars
---------------------------------------------------------------------------
(* While QEMU runs, HTTP finds what TFTP finds, whatever has been typed,   *)
(* browsed for or copied before, if the root is an absolute path, or a     *)
(* relative one while the launcher is in its own directory (ui_start.c:126, *)
(* cmdline.c:136-137).  Nothing typed at all is served from the root of a  *)
(* drive until Start or Copy has replaced it.                              *)
HttpServesTftp ==
  root # <<>> /\ root[1] # Empty /\ (is_absolute_path(root[1]) \/ cwd = pwd) =>
    Under(root[1]) = Under(tftp)
=============================================================================
