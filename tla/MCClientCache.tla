---------------------------- MODULE MCClientCache ----------------------------
(***************************************************************************)
(* Every query of the web client with every mutation that writes what it   *)
(* shows and promises to show it, and every later edit that sends it back. *)
(***************************************************************************)
EXTENDS ClientCache

Queries == {
  AGArchive_agsQuery, AGDetails_query, AGSubmit_detailsQuery, AGSubmit_studentLookupQuery,
  AGAssignmentGroups_classesQuery, AGAssignmentGroups_agsQuery, AGCreate_classesQuery,
  AGCreate_studentsQuery, AGEdit_detailQuery, AGEdit_studentsQuery, AGEditTemplate_templateQuery,
  AGTemplates_templatesQuery, AGTemplates_classesQuery, AdminClassDetails_detailsQuery,
  AdminClassDetails_allUsersQuery, AdminClasses_classesQuery, AdminClasses_teachersQuery,
  AdminUserDetails_roleQuery, AdminUserDetails_detailsQuery, AdminUserDetails_allClassesQuery,
  AdminUsers_classesQuery, AdminUsers_usersQuery, TeacherClassDetails_detailsQuery,
  TeacherClassDetails_allStudentsQuery, TeacherMyClasses_classesQuery,
  TeacherMyClasses_teachersQuery, TeacherMyClasses_allStudentsQuery,
  TeacherMyClasses_studentsQuery, TeacherStudentDetails_detailsQuery, StudentArchive_query,
  StudentAssignments_query, StudentDetails_detailsQuery, StudentSubmission_submissionQuery,
  AdminDashboard_dashboardQuery, TeacherDashboard_dashboardQuery,
  StudentDashboard_dashboardQuery, AppConfig_query, Navbar_appSettingsQuery,
  AdminSettings_settingsQuery, AdminSettings_versionQuery, AdminGns3_usersQuery,
  AdminGns3_recentUsersQuery, AdminGnsAllSessions_settingsQuery, AdminGnsAllSessions_usersQuery,
  AdminGnsAllSessions_sessionsQuery, TeacherGns3_settingsQuery, TeacherGns3_sessionQuery,
  TeacherGns3_historyQuery, TeacherGns3_classesQuery, TeacherGns3_studentsQuery,
  TeacherGns3_recentStudentsQuery, TeacherGns3AllSessions_settingsQuery,
  TeacherGns3AllSessions_classesQuery, TeacherGns3AllSessions_usersQuery,
  TeacherGns3AllSessions_sessionsQuery, StudentGns3_settingsQuery, StudentGns3_sessionQuery,
  StudentGns3_historyQuery, Gns3DataGrid_historyQuery }

Mutations == {
  AGDetails_archiveMutation, AGDetails_reopenAttemptMutation, AGAssignmentGroups_deleteMutation,
  AGAssignmentGroups_moveMutation, AGCreate_createMutation, AGEdit_editMutation,
  AGEditTemplate_saveMutation, AGTemplates_deleteMutation, AGTemplates_quickCreateMutation,
  AdminClassDetails_addUserMutation, AdminClassDetails_removeMutation,
  AdminClassDetails_editClassMutation, AdminClassDetails_deleteClassMutation,
  AdminClasses_createMutation, AdminClasses_editMutation, AdminClasses_deleteMutation,
  AdminUserDetails_addClassMutation, AdminUserDetails_removeFromClassMutation,
  AdminUsers_addMutation, AdminUsers_editMutation, AdminUsers_deleteMutation,
  TeacherClassDetails_editClassMutation, TeacherClassDetails_deleteClassMutation,
  TeacherClassDetails_removeStudentMutation, TeacherClassDetails_addStudentMutation,
  TeacherMyClasses_createMutation, TeacherMyClasses_editClassMutation,
  TeacherMyClasses_deleteClassMutation, TeacherMyClasses_addStudentMutation,
  TeacherMyClasses_handleStudentEditSave, TeacherMyClasses_handleStudentDelete,
  StudentSubmission_submitAssignmentMutation, AdminSettings_editMutation,
  AdminSettings_changePasswordMutation, AdminGnsAllSessions_startSessionMutation,
  AdminGnsAllSessions_stopSessionMutation, AdminGnsAllSessions_extendSessionMutation,
  AdminGnsAllSessions_forceStopAllMutation, TeacherGns3_startSessionMutation,
  TeacherGns3_stopSessionMutation, TeacherGns3_extendSessionMutation,
  TeacherGns3AllSessions_startSessionMutation, TeacherGns3AllSessions_stopSessionMutation,
  TeacherGns3AllSessions_extendSessionMutation, StudentGns3_startSessionMutation,
  StudentGns3_stopSessionMutation, StudentGns3_extendSessionMutation }

Shared == {"AGArchive", "AGDetails", "AGSubmit", "AGAssignmentGroups", "AGCreate", "AGEdit",
           "AGEditTemplate", "AGTemplates"}
Admins == Shared \cup {"AdminClassDetails", "AdminClasses", "AdminUserDetails", "AdminUsers",
           "AdminDashboard", "AdminSettings", "AdminGns3", "AdminGnsAllSessions"}
Teachers == Shared \cup {"TeacherClassDetails", "TeacherMyClasses", "TeacherStudentDetails",
             "TeacherDashboard", "TeacherGns3", "TeacherGns3AllSessions"}
Students == {"StudentArchive", "StudentAssignments", "StudentDetails", "StudentSubmission",
             "StudentDashboard", "StudentGns3"}

\* Pages one user may open.
Together(p1, p2) == \E role \in {Admins, Teachers, Students} : {p1, p2} \subseteq role \cup {Everywhere}

Watched == {[query |-> x[1], first |-> x[2], edit |-> NoEdit] :
              x \in {y \in Queries \X Mutations :
                 /\ y[1].shows \cap y[2].writes # {} /\ Together(y[1].page, y[2].page)
                 /\ Promised(y[1], y[2])}}

Edited == {[query |-> x[1], first |-> x[2], edit |-> x[3]] :
             x \in {y \in Queries \X Mutations \X Mutations :
                /\ y[3].basis = y[1].key /\ y[3].page = y[1].page
                /\ y[1].shows \cap y[2].writes \cap y[3].resends # {}
                /\ Together(y[1].page, y[2].page)}}

Each == Watched \cup Edited
============================================================================
