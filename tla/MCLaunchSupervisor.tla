------------------------- MODULE MCLaunchSupervisor -------------------------
EXTENDS LaunchSupervisor
=============================================================================
