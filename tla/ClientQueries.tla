---------------------------- MODULE ClientQueries ----------------------------
(***************************************************************************)
(* The queries and mutations of the web client's pages: each useQuery with *)
(* the page that mounts it, the first part of its key and what its answer  *)
(* shows; each useMutation with what it writes, the keys it invalidates    *)
(* when it succeeds and the page it leads to.  A mutation that sends back  *)
(* what an earlier answer held names that answer's query.  A page is named *)
(* after its file; Everywhere is mounted with every page.                  *)
(***************************************************************************)
EXTENDS Endpoints

Everywhere == "Everywhere"

\* polls: refetchInterval is set; ages: staleTime is finite; retries: a failed
\* fetch is tried again.
Query(page, key, op) ==
  [page |-> page, key |-> key, shows |-> op.shows, polls |-> FALSE, ages |-> TRUE,
   retries |-> TRUE]

\* What the page takes from the answer.
Only(q, facts) == [q EXCEPT !.shows = @ \cap facts]

Polled(q)   == [q EXCEPT !.polls = TRUE]
Ageless(q)  == [q EXCEPT !.ages = FALSE]
NoRetry(q)  == [q EXCEPT !.retries = FALSE]

Both(op1, op2) == [writes |-> op1.writes \cup op2.writes, shows |-> op1.shows \cup op2.shows]

(***************************************************************************)
(* refreshes: the keys invalidated; leads: the page navigated to.  basis:  *)
(* the key of the answer whose facts "resends" are sent back, taken from   *)
(* it when a dialog or the form is filled ("dialog"), from what is cached   *)
(* when it is sent ("cached"), or read again just before ("read").         *)
(***************************************************************************)
Mutation(page, op, keys) ==
  [page |-> page, writes |-> op.writes, refreshes |-> keys, leads |-> page,
   fills |-> "none", basis |-> "", resends |-> {}]

\* The part of the request that is sent.
Writing(m, facts) == [m EXCEPT !.writes = @ \cap facts]

Leading(m, page) == [m EXCEPT !.leads = page]

Resending(m, how, key, facts) ==
  [m EXCEPT !.fills = how, !.basis = key, !.resends = facts]

----------------------------------------------------------------------------
(***************************************************************************)
(* Assignment groups and templates.                                        *)
(***************************************************************************)
AGArchive_agsQuery == Query("AGArchive", "archiveAssignmentGroups", assignmentGroupQueryAssignmentGroups)

AGDetails_query ==
  NoRetry(Polled(Query("AGDetails", "assignmentGroupDetails",
                       Both(assignmentGroupQuerySubnetAssignmentGroupDetails,
                            assignmentGroupQueryIdNetAssignmentGroupDetails))))

\* "assignmentGroups" is the key of no query.
AGDetails_archiveMutation ==
  Mutation("AGDetails", assignmentGroupArchiveAssignmentGroup,
           {"assignmentGroupDetails", "assignmentGroups", "archiveAssignmentGroups"})

AGDetails_reopenAttemptMutation ==
  Mutation("AGDetails", assignmentGroupReopenStudentAssignmentAttempt, {"assignmentGroupDetails"})

\* Polled, without retries, where the caller passes an interval: on the student's
\* page only.
AGSubmit_detailsQuery ==
  Query("AGSubmit", "agSubmitDetails",
        Both(assignmentQuerySubnetAssignmentSubmitDetailsFull,
             assignmentQueryIdNetAssignmentSubmitDetailsFull))

AGSubmit_studentLookupQuery ==
  Only(Query("AGSubmit", "agSubmitStudentLookup", userQueryUsers), {"student"})

AGAssignmentGroups_classesQuery ==
  Only(Query("AGAssignmentGroups", "agClasses", classQueryClasses), {"class"})

\* Refetched when the next group changes its status, not for others' edits.
AGAssignmentGroups_agsQuery ==
  Query("AGAssignmentGroups", "agAssignmentGroups", assignmentGroupQueryAssignmentGroups)

AGAssignmentGroups_deleteMutation ==
  Mutation("AGAssignmentGroups",
           Both(assignmentGroupDeleteIdNetAssignmentGroups, assignmentGroupDeleteSubnetAssignmentGroups),
           {"agAssignmentGroups"})

\* Sends the two dates, computed from the dates of the dragged row.
AGAssignmentGroups_moveMutation ==
  Resending(Writing(Mutation("AGAssignmentGroups", assignmentGroupEditIdNetAssignmentGroup,
                      {"agAssignmentGroups"}), {"dates"}),
            "dialog", "agAssignmentGroups", {"dates"})

AGCreate_classesQuery == Only(Query("AGCreate", "agCreateClasses", classQueryClasses), {"class"})
AGCreate_studentsQuery ==
  Only(Query("AGCreate", "agCreateStudents", userQueryUsers), {"student", "member"})

\* Mutant: creating a group forgets to invalidate the list it leads to.
AGCreate_createForgets ==
  Leading(Mutation("AGCreate",
                   Both(assignmentGroupCreateIdNetAssignmentGroup, assignmentGroupCreateSubnetAssignmentGroup),
                   {}), "AGAssignmentGroups")

AGCreate_createMutation ==
  Leading(Mutation("AGCreate",
                   Both(assignmentGroupCreateIdNetAssignmentGroup, assignmentGroupCreateSubnetAssignmentGroup),
                   {"agAssignmentGroups"}), "AGAssignmentGroups")

AGEdit_detailQuery ==
  Query("AGEdit", "agEditDetail",
        Both(assignmentGroupQueryIdNetAssignmentGroupDetails, assignmentGroupQuerySubnetAssignmentGroupDetails))
AGEdit_studentsQuery ==
  Only(Query("AGEdit", "agEditStudents", userQueryUsers), {"student", "member"})

\* Mutant: saving a group forgets to invalidate what the form is filled from.
AGEdit_editForgets ==
  Resending(Leading(Mutation("AGEdit",
                             Both(assignmentGroupEditIdNetAssignmentGroup, assignmentGroupEditSubnetAssignmentGroup),
                             {"agAssignmentGroups"}), "AGAssignmentGroups"),
            "cached", "agEditDetail", EditAGBaseReq)

\* The form is reset to every answer.
AGEdit_editMutation ==
  Resending(Leading(Mutation("AGEdit",
                             Both(assignmentGroupEditIdNetAssignmentGroup, assignmentGroupEditSubnetAssignmentGroup),
                             {"agAssignmentGroups", "agEditDetail"}), "AGAssignmentGroups"),
            "cached", "agEditDetail", EditAGBaseReq)

AGEditTemplate_templateQuery == Query("AGEditTemplate", "agTemplate", aGTemplateQueryAGTemplates)

AGEditTemplate_saveMutation ==
  Resending(Leading(Mutation("AGEditTemplate",
                             Both(aGTemplateEditAGTemplate, aGTemplateCreateAGTemplate), {}),
                    "AGTemplates"),
            "dialog", "agTemplate", EditAGTemplateReq)

AGTemplates_templatesQuery == Query("AGTemplates", "agTemplates", aGTemplateQueryAGTemplates)
AGTemplates_classesQuery ==
  Only(Query("AGTemplates", "agCreateClasses", classQueryClasses), {"class"})

AGTemplates_deleteMutation == Mutation("AGTemplates", aGTemplateDeleteAGTemplates, {"agTemplates"})

AGTemplates_quickCreateMutation ==
  Leading(Mutation("AGTemplates",
                   Both(assignmentGroupCreateIdNetAssignmentGroup, assignmentGroupCreateSubnetAssignmentGroup),
                   {"agAssignmentGroups"}), "AGAssignmentGroups")

----------------------------------------------------------------------------
(***************************************************************************)
(* Classes and users, as an administrator sees them.                       *)
(***************************************************************************)
AdminClassDetails_detailsQuery == Query("AdminClassDetails", "teacherClassDetails", classQueryClassDetails)
AdminClassDetails_allUsersQuery ==
  Only(Query("AdminClassDetails", "allUsersForClassAdd", userQueryUsers), {"student", "teacher"})

AdminClassDetails_addUserMutation ==
  Mutation("AdminClassDetails", Both(classAddTeacherToClass, classAddStudentToClass), {"teacherClassDetails"})

\* The members who remain are those of the cached details.
AdminClassDetails_removeMutation ==
  Resending(Writing(Mutation("AdminClassDetails", classEditClass, {"teacherClassDetails"}), {"member", "teaches"}),
            "cached", "teacherClassDetails", {"member", "teaches"})

AdminClassDetails_editClassMutation ==
  Writing(Mutation("AdminClassDetails", classEditClass, {"teacherClassDetails"}), {"class"})

AdminClassDetails_deleteClassMutation ==
  Leading(Mutation("AdminClassDetails", classDeleteClasses, {}), "AdminClasses")

AdminClasses_classesQuery  == Query("AdminClasses", "classes", classQueryClasses)
AdminClasses_teachersQuery == Only(Query("AdminClasses", "teachers", userQueryUsers), {"teacher"})

AdminClasses_createMutation == Mutation("AdminClasses", classCreateClass, {"classes"})

AdminClasses_editMutation ==
  Resending(Writing(Mutation("AdminClasses", classEditClass, {"classes"}), {"class", "teaches"}),
            "dialog", "classes", {"class", "teaches"})

AdminClasses_deleteMutation == Mutation("AdminClasses", classDeleteClasses, {"classes"})

AdminUserDetails_roleQuery ==
  Only(Query("AdminUserDetails", "adminUserRole", userQueryUsers), {"student", "teacher"})
AdminUserDetails_detailsQuery == Query("AdminUserDetails", "adminUserDetails", userQueryUserDetails)
AdminUserDetails_allClassesQuery ==
  Only(Query("AdminUserDetails", "allClasses", classQueryClasses), {"class"})

AdminUserDetails_addClassMutation ==
  Mutation("AdminUserDetails", Both(classAddTeacherToClass, classAddStudentToClass), {"adminUserDetails"})

AdminUserDetails_removeFromClassMutation ==
  Resending(Writing(Mutation("AdminUserDetails", classEditClass, {"adminUserDetails"}), {"member", "teaches"}),
            "read", "adminUserDetails", {"member", "teaches"})

AdminUsers_classesQuery == Only(Query("AdminUsers", "classes", classQueryClasses), {"class"})
AdminUsers_usersQuery   == Query("AdminUsers", "users", userQueryUsers)

AdminUsers_addMutation == Mutation("AdminUsers", userAddUser, {"users"})

\* UserListPanel fills its dialog, with all classes of the user, from the row.
AdminUsers_editMutation ==
  Resending(Mutation("AdminUsers", userEditUser, {"users"}), "dialog", "users",
            {"student", "teacher", "member", "teaches"})

AdminUsers_deleteMutation == Mutation("AdminUsers", userDeleteUsers, {"users"})

----------------------------------------------------------------------------
(***************************************************************************)
(* Classes and students, as a teacher sees them.                           *)
(***************************************************************************)
TeacherClassDetails_detailsQuery == Query("TeacherClassDetails", "teacherClassDetails", classQueryClassDetails)
TeacherClassDetails_allStudentsQuery ==
  Only(Query("TeacherClassDetails", "allStudentsForClassAdd", userQueryUsers), {"student"})

TeacherClassDetails_editClassMutation ==
  Writing(Mutation("TeacherClassDetails", classEditClass, {"teacherClassDetails"}), {"class"})

TeacherClassDetails_deleteClassMutation ==
  Leading(Mutation("TeacherClassDetails", classDeleteClasses, {}), "TeacherMyClasses")

TeacherClassDetails_removeStudentMutation ==
  Resending(Writing(Mutation("TeacherClassDetails", classEditClass, {"teacherClassDetails"}), {"member"}),
            "cached", "teacherClassDetails", {"member"})

TeacherClassDetails_addStudentMutation ==
  Writing(Mutation("TeacherClassDetails", Both(classAddStudentToClass, userAddUser), {"teacherClassDetails"}),
          {"student", "password", "member"})

TeacherMyClasses_classesQuery ==
  Only(Query("TeacherMyClasses", "teacherClasses", classQueryClasses), {"class", "teaches"})
TeacherMyClasses_teachersQuery ==
  Only(Query("TeacherMyClasses", "teachers", userQueryUsers), {"teacher"})
TeacherMyClasses_allStudentsQuery ==
  Only(Query("TeacherMyClasses", "allStudentsForClassAssign", userQueryUsers), {"student", "member"})
TeacherMyClasses_studentsQuery ==
  Only(Query("TeacherMyClasses", "classStudents", userQueryUsers), {"student", "member"})

TeacherMyClasses_createMutation == Mutation("TeacherMyClasses", classCreateClass, {"teacherClasses"})

TeacherMyClasses_editClassMutation ==
  Resending(Writing(Mutation("TeacherMyClasses", classEditClass, {"teacherClasses"}), {"class", "teaches"}),
            "dialog", "teacherClasses", {"class", "teaches"})

TeacherMyClasses_deleteClassMutation == Mutation("TeacherMyClasses", classDeleteClasses, {"teacherClasses"})

TeacherMyClasses_addStudentMutation ==
  Writing(Mutation("TeacherMyClasses", Both(classAddStudentToClass, userAddUser),
                   {"classStudents", "allStudentsForClassAssign"}), {"student", "password", "member"})

TeacherMyClasses_handleStudentEditSave ==
  Resending(Writing(Mutation("TeacherMyClasses", userEditUser, {"classStudents"}),
                    {"student", "password", "member"}), "dialog", "classStudents", {"student", "member"})

TeacherMyClasses_handleStudentDelete ==
  Resending(Writing(Mutation("TeacherMyClasses", classEditClass, {"classStudents", "allStudentsForClassAssign"}), {"member"}),
            "cached", "classStudents", {"member"})

TeacherStudentDetails_detailsQuery == Query("TeacherStudentDetails", "teacherStudentDetails", userQueryUserDetails)

----------------------------------------------------------------------------
(***************************************************************************)
(* A student's assignments.                                                *)
(***************************************************************************)
StudentArchive_query ==
  Query("StudentArchive", "studentAssignments",
        Both(assignmentQuerySubnetAssignments, assignmentQueryIdNetAssignments))

StudentAssignments_query ==
  Polled(Query("StudentAssignments", "studentAssignments",
               Both(assignmentQueryIdNetAssignments, assignmentQuerySubnetAssignments)))

StudentDetails_detailsQuery ==
  NoRetry(Polled([AGSubmit_detailsQuery EXCEPT !.page = "StudentDetails"]))

StudentSubmission_submissionQuery ==
  NoRetry(Query("StudentSubmission", "assignmentSubmissionData",
                Both(assignmentSubmitQuerySubnetAssignmentDataForSubmit,
                     assignmentSubmitQueryIdNetAssignmentDataForSubmit)))

\* Leads to the details of the submission.
StudentSubmission_submitAssignmentMutation ==
  Leading(Mutation("StudentSubmission",
                   Both(assignmentSubmitSubmitIdNetAssignment, assignmentSubmitSubmitSubnetAssignment),
                   {"assignmentAttempt", "studentAssignments"}), "StudentDetails")

----------------------------------------------------------------------------
(***************************************************************************)
(* Dashboards and settings.                                                *)
(***************************************************************************)
AdminDashboard_dashboardQuery   == Query("AdminDashboard", "adminDashboard", dashboardQueryAdminDashboard)
TeacherDashboard_dashboardQuery == Query("TeacherDashboard", "teacherDashboard", dashboardQueryTeacherDashboard)
StudentDashboard_dashboardQuery == Query("StudentDashboard", "studentDashboard", dashboardQueryStudentDashboard)

AppConfig_query == Ageless(Query(Everywhere, "app-config", appConfigGetAppConfig))
Navbar_appSettingsQuery == Query(Everywhere, "navbar-appsettings", appSettingsQueryAppSettings)

AdminSettings_settingsQuery == Query("AdminSettings", "appsettings", appSettingsQueryAppSettings)
AdminSettings_versionQuery  == Query("AdminSettings", "updater-version-info", updaterGetVersionInfo)

\* Sends the fields that differ from the cached settings.
AdminSettings_editMutation == Mutation("AdminSettings", appSettingsEditAppSetting, {"appsettings"})

AdminSettings_changePasswordMutation ==
  Writing(Mutation("AdminSettings", userEditUser, {}), {"password"})

----------------------------------------------------------------------------
(***************************************************************************)
(* GNS3 sessions.                                                          *)
(***************************************************************************)
AdminGns3_usersQuery ==
  Polled(Only(Query("AdminGns3", "admin-gns3-users", userQueryUsers), {"student", "teacher"}))
AdminGns3_recentUsersQuery ==
  Polled(Only(Query("AdminGns3", "admin-gns3-recent-users", gns3QuerySessionHistory), {"sessions"}))

AdminGnsAllSessions_settingsQuery == Query("AdminGnsAllSessions", "appsettings", appSettingsQueryAppSettings)
AdminGnsAllSessions_usersQuery ==
  Polled(Only(Query("AdminGnsAllSessions", "gns3-users", userQueryUsers), {"student", "teacher"}))
AdminGnsAllSessions_sessionsQuery ==
  Polled(Only(Query("AdminGnsAllSessions", "gns3-sessions", gns3QuerySession), {"sessions"}))

AdminGnsAllSessions_startSessionMutation  == Writing(Mutation("AdminGnsAllSessions", gns3StartSession, {"gns3-sessions"}), {"sessions"})
AdminGnsAllSessions_stopSessionMutation   == Writing(Mutation("AdminGnsAllSessions", gns3StopSession, {"gns3-sessions"}), {"sessions"})
AdminGnsAllSessions_extendSessionMutation == Writing(Mutation("AdminGnsAllSessions", gns3ExtendSession, {"gns3-sessions"}), {"sessions"})
AdminGnsAllSessions_forceStopAllMutation  == Writing(Mutation("AdminGnsAllSessions", gns3ForceStopAll, {"gns3-sessions"}), {"sessions"})

TeacherGns3_settingsQuery == Query("TeacherGns3", "appsettings", appSettingsQueryAppSettings)
TeacherGns3_sessionQuery ==
  Polled(Only(Query("TeacherGns3", "teacher-gns3-session", gns3QuerySession), {"session"}))
TeacherGns3_historyQuery ==
  Polled(Only(Query("TeacherGns3", "teacher-gns3-history", gns3QuerySessionHistory), {"session"}))
TeacherGns3_classesQuery ==
  Only(Query("TeacherGns3", "teacher-gns3-classes", classQueryClasses), {"class"})
TeacherGns3_studentsQuery ==
  Polled(Only(Query("TeacherGns3", "teacher-gns3-students", userQueryUsers), {"student"}))
TeacherGns3_recentStudentsQuery ==
  Polled(Only(Query("TeacherGns3", "teacher-gns3-recent-students", gns3QuerySessionHistory), {"sessions"}))

TeacherGns3_startSessionMutation  == Writing(Mutation("TeacherGns3", gns3StartSession, {"teacher-gns3-session"}), {"session"})
TeacherGns3_stopSessionMutation   == Writing(Mutation("TeacherGns3", gns3StopSession, {"teacher-gns3-session"}), {"session"})
TeacherGns3_extendSessionMutation ==
  Writing(Mutation("TeacherGns3", gns3ExtendSession, {"teacher-gns3-session", "teacher-gns3-history"}), {"session"})

TeacherGns3AllSessions_settingsQuery == Query("TeacherGns3AllSessions", "appsettings", appSettingsQueryAppSettings)
TeacherGns3AllSessions_classesQuery ==
  Only(Query("TeacherGns3AllSessions", "teacher-classes", classQueryClasses), {"class"})
TeacherGns3AllSessions_usersQuery ==
  Polled(Only(Query("TeacherGns3AllSessions", "teacher-gns3-users", userQueryUsers), {"student"}))
TeacherGns3AllSessions_sessionsQuery ==
  Polled(Only(Query("TeacherGns3AllSessions", "gns3-sessions", gns3QuerySession), {"sessions"}))

TeacherGns3AllSessions_startSessionMutation ==
  Writing(Mutation("TeacherGns3AllSessions", gns3StartSession, {"gns3-sessions"}), {"sessions"})
TeacherGns3AllSessions_stopSessionMutation ==
  Writing(Mutation("TeacherGns3AllSessions", gns3StopSession, {"gns3-sessions"}), {"sessions"})
TeacherGns3AllSessions_extendSessionMutation ==
  Writing(Mutation("TeacherGns3AllSessions", gns3ExtendSession, {"gns3-sessions"}), {"sessions"})

StudentGns3_settingsQuery == Query("StudentGns3", "appsettings", appSettingsQueryAppSettings)
StudentGns3_sessionQuery ==
  Polled(Only(Query("StudentGns3", "student-gns3-session", gns3QuerySession), {"session"}))
StudentGns3_historyQuery ==
  Polled(Only(Query("StudentGns3", "student-gns3-history", gns3QuerySessionHistory), {"session"}))

StudentGns3_startSessionMutation ==
  Writing(Mutation("StudentGns3", gns3StartSession, {"student-gns3-session", "student-gns3-history"}), {"session"})
StudentGns3_stopSessionMutation ==
  Writing(Mutation("StudentGns3", gns3StopSession, {"student-gns3-session", "student-gns3-history"}), {"session"})
StudentGns3_extendSessionMutation ==
  Writing(Mutation("StudentGns3", gns3ExtendSession, {"student-gns3-session", "student-gns3-history"}), {"session"})

Gns3DataGrid_historyQuery ==
  Polled(Only(Query("AdminGnsAllSessions", "gns3-history", gns3QuerySessionHistory), {"sessions"}))

----------------------------------------------------------------------------
\* Fetched when the pointer rests on a link that leads to their page.
Prefetched == {"adminDashboard", "users", "classes", "agAssignmentGroups", "teacherDashboard",
               "teacherClasses", "studentDashboard", "studentAssignments"}

PrefetchedFromRows == {"archiveAssignmentGroups", "assignmentGroupDetails", "agSubmitDetails",
                       "adminUserDetails", "adminUserRole", "teacherStudentDetails",
                       "teacherClassDetails", "assignmentSubmissionData"}

============================================================================
