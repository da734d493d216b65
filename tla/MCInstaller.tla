---------------------------- MODULE MCInstaller ----------------------------
(***************************************************************************)
(* Commands of every kind one after the other, and an uninstall while an   *)
(* install is running.                                                     *)
(***************************************************************************)
EXTENDS Installer

InstallWithUninstall ==
    {<<"install", "uninstallWithNamespace">>, <<"installWithoutWait", "uninstall">>}
=============================================================================
